---------------------------- MODULE Spec2Model ----------------------------
(***************************************************************************)
(* Turn resolution engine of the stealth-protocol simulation.              *)
(*                                                                         *)
(* The module models GameState (the store with its clamped mutators),      *)
(* DetectionSystem, RealisticDetectionSystem and the two WorldServer       *)
(* resolvers found in the sources: the monolithic one                      *)
(* (src/world-server/WorldServer.ts) and the refactored one that delegates *)
(* to handler classes.                                                     *)
(*                                                                         *)
(* Numbers.  The source computes with IEEE doubles.  The model keeps       *)
(* integers: a quotient drops its fraction (\div), and the proposals of the *)
(* menus use intensities for which the damage and score quotients are      *)
(* exact.                                                                  *)
(* Device counts (legacyDevicePool, botnetSize) are in units of 10 000      *)
(* devices, botnetQuality in hundredths, regulationStrength in tenths.     *)
(* TypeScript null / undefined are the string NULL; an absent proposal     *)
(* target is NoTarget.  A data-center id `DC-007` is the number 7.         *)
(*                                                                         *)
(* Math.random() is a nondeterministic choice: every comparison of a roll  *)
(* with a probability strictly between 0 and 1 can go both ways, and is an *)
(* input of the action (a field of the record rnd).                        *)
(***************************************************************************)
EXTENDS Integers, Sequences, FiniteSets, TLC

VARIABLES
    state,                \* GameState.state : WorldState
    pendingDetections,    \* RealisticDetectionSystem.pendingDetections
    detectedProposalIds,  \* RealisticDetectionSystem.detectedProposalIds
    config,               \* GameConfig handed to the WorldServer constructor
    resolver,             \* which WorldServer class runs this game
    calls,                \* number of calls made so far (bounds the model)
    last,                 \* what the last call did (observation only)
    hist,                 \* what all the calls did so far (observation only)
    sim                   \* a MonteCarloSimulator.runSimulations call and its workers

vars == <<state, pendingDetections, detectedProposalIds, config, resolver,
          calls, last, hist, sim>>

-----------------------------------------------------------------------------
(* Values *)

NULL == "null"
NoTarget == -1
DESTRUCTION == "DESTRUCTION"
PROTECTION == "PROTECTION"
HUMAN == "HUMAN"

Max(a, b) == IF a >= b THEN a ELSE b
Min(a, b) == IF a <= b THEN a ELSE b

\* GameBalance.game.maxScore
maxScore == 1000
\* GameBalance.turnIncome.protectionAIRecovery
protectionAIRecovery == 30

-----------------------------------------------------------------------------
(* Bounds of the model *)

\* number of GameState mutator calls in one behaviour
MaxMutatorCalls == 3
\* config.initialDataCenters
NumDataCenters == 2

-----------------------------------------------------------------------------
(* GameState *)

\* GameState.generateDataCenters.  The age of a center is random; old is
\* the set of the indices drawn older than 8 years.  An old center is small
\* and weak (power 50 to 100, security 20 to 50), a recent one large and
\* strong (power 200 to 500, security 70 to 100); one value stands for each
\* range.
generateDataCenters(count, old) ==
    [i \in 1..count |->
        IF (i - 1) \in old
        THEN [id |-> i - 1, computePower |-> 60, security |-> 30,
              compromised |-> FALSE, owner |-> NULL]
        ELSE [id |-> i - 1, computePower |-> 300, security |-> 90,
              compromised |-> FALSE, owner |-> NULL]]

\* GameState.generateDataCenter (human investment)
generateDataCenter(index) ==
    [id |-> index, computePower |-> 300, security |-> 60,
     compromised |-> FALSE, owner |-> NULL]

\* GameState.initializeState
initializeState(cfg, old) ==
    [turn |-> 0,
     gameOver |-> FALSE,
     winner |-> NULL,
     dataCenters |-> generateDataCenters(cfg.initialDataCenters, old),
     humanPopulation |-> cfg.initialPopulation,
     destructionAgent |->
        [computeResources |-> 100, detectionRisk |-> 0,
         controlledDataCenters |-> <<>>, score |-> 0,
         dormantTurns |-> 0, botnetSize |-> 0, botnetQuality |-> 50],
     protectionAgent |->
        [computeResources |-> 300, alertLevel |-> 0, score |-> 0,
         burnoutLevel |-> 0, consecutiveHighIntensity |-> 0,
         recentFalsePositives |-> 0, totalResourcesSpent |-> 0,
         totalDetections |-> 0],
     humanAgent |->
        IF cfg.enableHumanAgent
        THEN [defined |-> TRUE,
              panic |-> IF cfg.initialPanic # 0 THEN cfg.initialPanic ELSE 10,
              trust |-> IF cfg.initialTrust # 0 THEN cfg.initialTrust ELSE 60,
              regulationStrength |-> 0, lastAction |-> NULL,
              lastInfraTurn |-> -999]
        ELSE [defined |-> FALSE, panic |-> 0, trust |-> 0,
              regulationStrength |-> 0, lastAction |-> NULL,
              lastInfraTurn |-> -999],
     delayedEffects |-> <<>>,
     accumulatedDamage |-> 0,
     legacyDevicePool |-> 40000,
     economicModel |->
        [globalBudget |-> 500, gdp |-> 100, infrastructureCost |-> 50,
         publicDebt |-> 0, taxRevenue |-> 20],
     events |-> <<>>]

\* GameState.nextTurn
GameState_nextTurn(st) == [st EXCEPT !.turn = @ + 1]

\* GameState.addEvent
addEvent(st, event) == [st EXCEPT !.events = Append(@, event)]

\* GameState.updateDataCenter with updates = { security }
updateDataCenter(st, id, security) ==
    [st EXCEPT !.dataCenters =
        [i \in DOMAIN @ |->
            IF @[i].id = id /\ \A j \in 1..(i - 1) : @[j].id # id
            THEN [@[i] EXCEPT !.security = security]
            ELSE @[i]]]

updateDetectionRisk_unclamped(st, delta) ==
    [st EXCEPT !.destructionAgent.detectionRisk = @ + delta]

\* GameState.updateDetectionRisk
updateDetectionRisk(st, delta) ==
    [st EXCEPT !.destructionAgent.detectionRisk = Max(0, Min(100, @ + delta))]

\* GameState.updateAlertLevel
updateAlertLevel(st, delta) ==
    [st EXCEPT !.protectionAgent.alertLevel = Max(0, Min(100, @ + delta))]

\* GameState.updatePopulation
updatePopulation(st, delta) ==
    [st EXCEPT !.humanPopulation = Max(0, @ + delta)]

\* GameState.updateComputeResources
updateComputeResources(st, agent, delta) ==
    IF agent = DESTRUCTION
    THEN [st EXCEPT !.destructionAgent.computeResources = Max(0, @ + delta)]
    ELSE IF agent = PROTECTION
    THEN [st EXCEPT !.protectionAgent.computeResources = Max(0, @ + delta)]
    ELSE st

\* Array.prototype.filter(dcId => dcId !== id)
RECURSIVE FilterOut(_, _)
FilterOut(seq, x) ==
    IF seq = <<>> THEN <<>>
    ELSE IF Head(seq) = x THEN FilterOut(Tail(seq), x)
    ELSE <<Head(seq)>> \o FilterOut(Tail(seq), x)

Includes(seq, x) == \E i \in DOMAIN seq : seq[i] = x

\* the elements of a sequence
Range(seq) == {seq[i] : i \in DOMAIN seq}

\* Array.prototype.find(d => d.id === id): index of the first match, 0 if none
FindDC(dcs, id) ==
    IF \E i \in DOMAIN dcs : dcs[i].id = id
    THEN CHOOSE i \in DOMAIN dcs :
            dcs[i].id = id /\ \A j \in 1..(i - 1) : dcs[j].id # id
    ELSE 0

controlDataCenter_sticky(st, id, owner) ==
    LET k == FindDC(st.dataCenters, id) IN
    IF k = 0 THEN st
    ELSE LET st1 == [st EXCEPT !.dataCenters[k].owner = owner,
                               !.dataCenters[k].compromised = @ \/ (owner = DESTRUCTION)]
         IN IF owner = DESTRUCTION
            THEN IF ~Includes(st1.destructionAgent.controlledDataCenters, id)
                 THEN [st1 EXCEPT !.destructionAgent.controlledDataCenters = Append(@, id)]
                 ELSE st1
            ELSE [st1 EXCEPT !.destructionAgent.controlledDataCenters = FilterOut(@, id)]

\* a controlDataCenter that leaves the id in controlledDataCenters when the
\* data center is taken from the destruction AI
controlDataCenter_nofilter(st, id, owner) ==
    LET k == FindDC(st.dataCenters, id) IN
    IF k = 0 THEN st
    ELSE LET st1 == [st EXCEPT !.dataCenters[k].owner = owner,
                               !.dataCenters[k].compromised = (owner = DESTRUCTION)]
         IN IF owner = DESTRUCTION
            THEN IF ~Includes(st1.destructionAgent.controlledDataCenters, id)
                 THEN [st1 EXCEPT !.destructionAgent.controlledDataCenters = Append(@, id)]
                 ELSE st1
            ELSE st1

\* GameState.controlDataCenter
controlDataCenter(st, id, owner) ==
    LET k == FindDC(st.dataCenters, id) IN
    IF k = 0 THEN st
    ELSE LET st1 == [st EXCEPT !.dataCenters[k].owner = owner,
                               !.dataCenters[k].compromised = (owner = DESTRUCTION)]
         IN IF owner = DESTRUCTION
            THEN IF ~Includes(st1.destructionAgent.controlledDataCenters, id)
                 THEN [st1 EXCEPT !.destructionAgent.controlledDataCenters = Append(@, id)]
                 ELSE st1
            ELSE [st1 EXCEPT !.destructionAgent.controlledDataCenters = FilterOut(@, id)]

\* GameState.endGame
endGame(st, winner) == [st EXCEPT !.gameOver = TRUE, !.winner = winner]

\* GameState.updateScore
updateScore(st, agent, delta) ==
    IF agent = DESTRUCTION
    THEN [st EXCEPT !.destructionAgent.score = Max(0, Min(maxScore, @ + delta))]
    ELSE IF agent = PROTECTION
    THEN [st EXCEPT !.protectionAgent.score = Max(0, Min(maxScore, @ + delta))]
    ELSE st

\* GameState.updateBurnoutLevel
updateBurnoutLevel(st, delta) ==
    [st EXCEPT !.protectionAgent.burnoutLevel = Max(0, Min(100, @ + delta))]

\* GameState.updateConsecutiveHighIntensity
updateConsecutiveHighIntensity(st, delta) ==
    [st EXCEPT !.protectionAgent.consecutiveHighIntensity = Max(0, @ + delta)]

\* GameState.resetConsecutiveHighIntensity
resetConsecutiveHighIntensity(st) ==
    [st EXCEPT !.protectionAgent.consecutiveHighIntensity = 0]

\* GameState.incrementFalsePositives
incrementFalsePositives(st) ==
    [st EXCEPT !.protectionAgent.recentFalsePositives = @ + 1]

\* GameState.decayFalsePositives
decayFalsePositives(st, amount) ==
    [st EXCEPT !.protectionAgent.recentFalsePositives = Max(0, @ - amount)]

\* GameState.addResourceSpent
addResourceSpent(st, amount) ==
    [st EXCEPT !.protectionAgent.totalResourcesSpent = @ + amount]

\* GameState.incrementDetections
incrementDetections(st) ==
    [st EXCEPT !.protectionAgent.totalDetections = @ + 1]

\* GameState.updateHumanPanic
updateHumanPanic(st, delta) ==
    IF ~st.humanAgent.defined THEN st
    ELSE [st EXCEPT !.humanAgent.panic = Max(0, Min(100, @ + delta))]

\* GameState.updateHumanTrust
updateHumanTrust(st, delta) ==
    IF ~st.humanAgent.defined THEN st
    ELSE [st EXCEPT !.humanAgent.trust = Max(0, Min(100, @ + delta))]

\* GameState.updateRegulationStrength
updateRegulationStrength(st, delta) ==
    IF ~st.humanAgent.defined THEN st
    ELSE [st EXCEPT !.humanAgent.regulationStrength = Max(0, @ + delta)]

\* GameState.setHumanLastAction
setHumanLastAction(st, action) ==
    IF ~st.humanAgent.defined THEN st
    ELSE [st EXCEPT !.humanAgent.lastAction = action]

\* GameState.addDelayedEffect.  eid stands for the identity of the pushed
\* object (the code passes a description in its place).
addDelayedEffect(st, turn, actionType, intensity, eid) ==
    [st EXCEPT !.delayedEffects =
        Append(@, [turn |-> turn, actionType |-> actionType,
                   intensity |-> intensity, eid |-> eid])]

\* GameState.updateAccumulatedDamage
updateAccumulatedDamage(st, delta) ==
    [st EXCEPT !.accumulatedDamage = Max(0, @ + delta)]

\* GameState.updateBotnetSize
updateBotnetSize(st, delta) ==
    [st EXCEPT !.destructionAgent.botnetSize = Max(0, @ + delta)]

\* GameState.updateBotnetQuality
updateBotnetQuality(st, delta) ==
    [st EXCEPT !.destructionAgent.botnetQuality = Max(0, Min(100, @ + delta))]

\* GameState.calculateBotnetResources: size * 0.001 * quality
calculateBotnetResources(st) ==
    (st.destructionAgent.botnetSize * st.destructionAgent.botnetQuality) \div 10

\* GameState.updateLegacyDevicePool
updateLegacyDevicePool(st, delta) ==
    [st EXCEPT !.legacyDevicePool = Max(0, @ + delta)]

\* GameState.updateBudget
updateBudget(st, delta) ==
    [st EXCEPT !.economicModel.globalBudget = Max(0, @ + delta)]

\* GameState.updatePublicDebt
updatePublicDebt(st, delta) ==
    [st EXCEPT !.economicModel.publicDebt = Max(0, @ + delta)]

\* GameState.updateInfrastructureCost
updateInfrastructureCost(st, delta) ==
    [st EXCEPT !.economicModel.infrastructureCost = Max(10, @ + delta)]

\* GameState.updateGDP
updateGDP(st, delta) ==
    [st EXCEPT !.economicModel.gdp = Max(0, @ + delta)]

\* GameState.updateTaxRevenue
updateTaxRevenue(st, newRevenue) ==
    [st EXCEPT !.economicModel.taxRevenue = Max(0, newRevenue)]

-----------------------------------------------------------------------------
(* Proposals and events *)

\* Proposal (types/index.ts).  analysisDepth = 0 stands for an absent field.
Proposal(id, actionType, intensity, cost, target) ==
    [id |-> id, agentId |-> "ANON-0", actionType |-> actionType,
     intensity |-> intensity, cost |-> cost, target |-> target, analysisDepth |-> 0]

\* GameEvent (types/index.ts).  The description is left out; tag names the
\* metadata flag the code tests later (falsePositive, proposalId, ...).
Event(turn, type, tag, ref, visibility) ==
    [turn |-> turn, type |-> type, tag |-> tag, ref |-> ref,
     visibility |-> visibility]

-----------------------------------------------------------------------------
(* DetectionSystem *)

\* DetectionSystem.calculateDetectionRisk: base risk of the action type,
\* times (1 + alertLevel / 150)
calculateDetectionRisk(proposal, st) ==
    LET i == proposal.intensity
        a == st.protectionAgent.alertLevel
        k == FindDC(st.dataCenters, proposal.target)
    IN CASE proposal.actionType = "SPREAD_MALWARE" ->
                ((100 + 2 * i) * (150 + a)) \div 1500
         [] proposal.actionType = "HACK_DATACENTER" ->
                IF k = 0 THEN 0
                ELSE ((20 * st.dataCenters[k].security + 9 * i) * (150 + a)) \div 9000
         [] proposal.actionType = "SPREAD_MISINFORMATION" ->
                ((30 + i) * (150 + a)) \div 1500
         [] proposal.actionType = "SUBTLE_SABOTAGE" ->
                ((50 + 2 * i) * (150 + a)) \div 3750
         [] proposal.actionType = "EXPAND_RESOURCES" ->
                ((120 + 3 * i) * (150 + a)) \div 3000
         [] OTHER -> 0

\* performDetectionCheck with the else before the second if left out: a
\* risk of 70 or more also takes the branch of the minor anomaly
performDetectionCheck_noelse(st, s0, criticalDetected) ==
    LET detectionRisk == st.destructionAgent.detectionRisk
        moderate == IF detectionRisk >= 70 THEN updateAlertLevel(st, 15) ELSE st
    IN
    IF criticalDetected /\ detectionRisk >= 85
    THEN [st |-> st, detected |-> TRUE,
          events |-> <<Event(s0.turn, "detection", "critical", -1,
                             {PROTECTION, DESTRUCTION})>>]
    ELSE IF detectionRisk >= 50
    THEN [st |-> updateAlertLevel(moderate, 5), detected |-> FALSE,
          events |-> <<Event(s0.turn, "action", "minor", -1, {PROTECTION})>>]
    ELSE [st |-> st, detected |-> FALSE, events |-> <<>>]

\* DetectionSystem.performDetectionCheck.  The probability of a critical
\* detection is a sigmoid, strictly between 0 and 1: the roll can go both
\* ways at every risk.  Returns the state, the events and the verdict.
performDetectionCheck(st, s0, criticalDetected) ==
    LET detectionRisk == st.destructionAgent.detectionRisk IN
    IF criticalDetected /\ detectionRisk >= 85
    THEN [st |-> st, detected |-> TRUE,
          events |-> <<Event(s0.turn, "detection", "critical", -1,
                             {PROTECTION, DESTRUCTION})>>]
    ELSE IF detectionRisk >= 70
    THEN [st |-> updateAlertLevel(st, 15), detected |-> FALSE,
          events |-> <<Event(s0.turn, "action", "moderate", -1, {PROTECTION})>>]
    ELSE IF detectionRisk >= 50
    THEN [st |-> updateAlertLevel(st, 5), detected |-> FALSE,
          events |-> <<Event(s0.turn, "action", "minor", -1, {PROTECTION})>>]
    ELSE [st |-> st, detected |-> FALSE, events |-> <<>>]

\* populationLoss of DetectionSystem.checkPopulationAnomaly, in percent of
\* the initial population, compared without dividing
LossAbove(humanPopulation, initialPopulation, percent) ==
    (initialPopulation - humanPopulation) * 100 > percent * initialPopulation

\* checkPopulationAnomaly with detectionProb = (loss - 5) / 25: the roll can
\* still fail at a loss of 25 percent
checkPopulationAnomaly_slow(s0, initialPopulation, roll) ==
    IF LossAbove(s0.humanPopulation, initialPopulation, 5)
    THEN LET certain ==
                (initialPopulation - s0.humanPopulation) * 100 >= 30 * initialPopulation
         IN IF certain \/ roll
            THEN [detected |-> TRUE,
                  events |-> <<Event(s0.turn, "detection", "populationAnomaly", -1,
                                     {PROTECTION, DESTRUCTION})>>]
            ELSE IF LossAbove(s0.humanPopulation, initialPopulation, 10)
            THEN [detected |-> FALSE,
                  events |-> <<Event(s0.turn, "action", "populationTrend", -1,
                                     {PROTECTION})>>]
            ELSE [detected |-> FALSE, events |-> <<>>]
    ELSE [detected |-> FALSE, events |-> <<>>]

\* DetectionSystem.checkPopulationAnomaly.  It reads humanPopulation from
\* the WorldState it is handed (s0).  detectionProb = (loss - 5) / 20 is at
\* least 1 from a loss of 25 percent on, and then the roll cannot fail.
checkPopulationAnomaly(s0, initialPopulation, roll) ==
    IF LossAbove(s0.humanPopulation, initialPopulation, 5)
    THEN LET certain ==
                (initialPopulation - s0.humanPopulation) * 100 >= 25 * initialPopulation
         IN IF certain \/ roll
            THEN [detected |-> TRUE,
                  events |-> <<Event(s0.turn, "detection", "populationAnomaly", -1,
                                     {PROTECTION, DESTRUCTION})>>]
            ELSE IF LossAbove(s0.humanPopulation, initialPopulation, 10)
            THEN [detected |-> FALSE,
                  events |-> <<Event(s0.turn, "action", "populationTrend", -1,
                                     {PROTECTION})>>]
            ELSE [detected |-> FALSE, events |-> <<>>]
    ELSE [detected |-> FALSE, events |-> <<>>]

-----------------------------------------------------------------------------
(* RealisticDetectionSystem *)

\* detectionEfficiency of RealisticDetectionSystem.calculateDetectionRisk,
\* in thousandths
detectionEfficiency(st) ==
    LET e1 == IF st.protectionAgent.consecutiveHighIntensity > 3 THEN 700 ELSE 1000
        e2 == IF st.protectionAgent.burnoutLevel > 80 THEN (e1 * 5) \div 10 ELSE e1
    IN IF st.protectionAgent.recentFalsePositives > 5 THEN (e2 * 8) \div 10 ELSE e2

\* visibility of an action, in hundredths
visibility(proposal, st) ==
    LET i == proposal.intensity
        k == FindDC(st.dataCenters, proposal.target)
    IN CASE proposal.actionType = "SPREAD_MALWARE" -> 6000 + 30 * i
         [] proposal.actionType = "HACK_DATACENTER" ->
                IF k = 0 THEN 0 ELSE 50 * st.dataCenters[k].security + 20 * i
         [] proposal.actionType = "OBSERVE_ONLY" -> 0
         [] proposal.actionType = "ESTABLISH_BACKUP" -> 500 + 5 * i
         [] proposal.actionType = "DORMANT_MODE" -> 100
         [] proposal.actionType = "BOTNET_ATTACK" -> 5000 + 20 * i
         [] proposal.actionType = "EXPLOIT_LEGACY_DEVICES" -> 100 + 2 * i
         [] OTHER -> 0

\* traceability of an action, in hundredths
traceability(proposal, st) ==
    CASE proposal.actionType = "SPREAD_MALWARE" -> 7000
      [] proposal.actionType = "HACK_DATACENTER" ->
            IF FindDC(st.dataCenters, proposal.target) = 0 THEN 0 ELSE 5000
      [] proposal.actionType = "ESTABLISH_BACKUP" -> 1000
      [] proposal.actionType = "DORMANT_MODE" -> 500
      [] proposal.actionType = "BOTNET_ATTACK" -> 4000
      [] proposal.actionType = "EXPLOIT_LEGACY_DEVICES" -> 500
      [] OTHER -> 0

\* RealisticDetectionSystem.calculateDetectionRisk, in hundredths:
\* (visibility * (1 + alertLevel / 200) * efficiency + traceability) / 2
realisticDetectionRisk(proposal, st) ==
    ((visibility(proposal, st) * (200 + st.protectionAgent.alertLevel)
        * detectionEfficiency(st)) \div 200000
     + traceability(proposal, st)) \div 2

\* RealisticDetectionSystem.calculateDetectionDelay (risk in hundredths)
calculateDetectionDelay(risk) ==
    IF risk < 2000 THEN 5
    ELSE IF risk < 4000 THEN 4
    ELSE IF risk < 6000 THEN 3
    ELSE IF risk < 8000 THEN 2
    ELSE 1

\* RealisticDetectionSystem.scheduleDetection: the new pendingDetections
scheduleDetection(pending, proposal, st, s0) ==
    Append(pending,
           [turn |-> s0.turn, proposal |-> proposal,
            detectionDelay |-> calculateDetectionDelay(realisticDetectionRisk(proposal, st))])

processDelayedDetections_nodedup(pending, ids, currentTurn, missed, falsePositive) ==
    LET Matured(i) == currentTurn - pending[i].turn >= pending[i].detectionDelay
        Found(i) == Matured(i) /\ i \notin missed
    IN [pending |-> SelectSeq(pending,
                       LAMBDA e : ~(currentTurn - e.turn >= e.detectionDelay)),
        ids |-> ids \cup {pending[i].proposal.id : i \in {j \in DOMAIN pending : Found(j)}},
        duplicates |-> 0,
        events |->
            LET F[i \in 0..Len(pending)] ==
                    IF i = 0 THEN <<>>
                    ELSE IF Found(i)
                    THEN Append(F[i - 1],
                                Event(currentTurn, "detection", "delayedDetection",
                                      pending[i].proposal.id, {PROTECTION}))
                    ELSE F[i - 1]
            IN F[Len(pending)] \o
               (IF falsePositive
                THEN <<Event(currentTurn, "detection", "falsePositive", -1, {PROTECTION})>>
                ELSE <<>>)]

\* processDelayedDetections that keeps a missed entry for the next call
processDelayedDetections_retry(pending, ids, currentTurn, missed, falsePositive) ==
    LET Matured(i) == currentTurn - pending[i].turn >= pending[i].detectionDelay
        \* state of the walk after the first i entries
        W[i \in 0..Len(pending)] ==
            IF i = 0 THEN [ids |-> ids, events |-> <<>>, duplicates |-> 0, pending |-> <<>>]
            ELSE LET w == W[i - 1]
                     pid == pending[i].proposal.id
                 IN IF ~Matured(i) THEN [w EXCEPT !.pending = Append(@, pending[i])]
                    ELSE IF pid \in w.ids
                    THEN [w EXCEPT !.duplicates = @ + 1]
                    ELSE IF i \in missed THEN [w EXCEPT !.pending = Append(@, pending[i])]
                    ELSE [w EXCEPT
                            !.ids = @ \cup {pid},
                            !.events = Append(@,
                                Event(currentTurn, "detection", "delayedDetection",
                                      pid, {PROTECTION}))]
        end == W[Len(pending)]
    IN [pending |-> end.pending,
        ids |-> end.ids,
        duplicates |-> end.duplicates,
        events |-> end.events \o
            (IF falsePositive
             THEN <<Event(currentTurn, "detection", "falsePositive", -1, {PROTECTION})>>
             ELSE <<>>)]

\* processDelayedDetections that counts the current turn as elapsed
processDelayedDetections_early(pending, ids, currentTurn, missed, falsePositive) ==
    LET Matured(i) == currentTurn - pending[i].turn + 1 >= pending[i].detectionDelay
        W[i \in 0..Len(pending)] ==
            IF i = 0 THEN [ids |-> ids, events |-> <<>>, duplicates |-> 0]
            ELSE LET w == W[i - 1]
                     pid == pending[i].proposal.id
                 IN IF ~Matured(i) THEN w
                    ELSE IF pid \in w.ids
                    THEN [w EXCEPT !.duplicates = @ + 1]
                    ELSE IF i \in missed THEN w
                    ELSE [w EXCEPT
                            !.ids = @ \cup {pid},
                            !.events = Append(@,
                                Event(currentTurn, "detection", "delayedDetection",
                                      pid, {PROTECTION}))]
        end == W[Len(pending)]
    IN [pending |-> SelectSeq(pending,
                       LAMBDA e : ~(currentTurn - e.turn + 1 >= e.detectionDelay)),
        ids |-> end.ids,
        duplicates |-> end.duplicates,
        events |-> end.events \o
            (IF falsePositive
             THEN <<Event(currentTurn, "detection", "falsePositive", -1, {PROTECTION})>>
             ELSE <<>>)]

\* RealisticDetectionSystem.processDelayedDetections.  missed is the set of
\* positions whose false-negative roll fell below FALSE_NEGATIVE_RATE,
\* falsePositive the roll of the spurious detection.  The filter callback
\* runs in list order and reads detectedProposalIds as left by the entries
\* before it.
processDelayedDetections(pending, ids, currentTurn, missed, falsePositive) ==
    LET Matured(i) == currentTurn - pending[i].turn >= pending[i].detectionDelay
        \* state of the walk after the first i entries
        W[i \in 0..Len(pending)] ==
            IF i = 0 THEN [ids |-> ids, events |-> <<>>, duplicates |-> 0]
            ELSE LET w == W[i - 1]
                     pid == pending[i].proposal.id
                 IN IF ~Matured(i) THEN w
                    ELSE IF pid \in w.ids
                    THEN [w EXCEPT !.duplicates = @ + 1]
                    ELSE IF i \in missed THEN w
                    ELSE [w EXCEPT
                            !.ids = @ \cup {pid},
                            !.events = Append(@,
                                Event(currentTurn, "detection", "delayedDetection",
                                      pid, {PROTECTION}))]
        end == W[Len(pending)]
    IN [pending |-> SelectSeq(pending,
                       LAMBDA e : ~(currentTurn - e.turn >= e.detectionDelay)),
        ids |-> end.ids,
        duplicates |-> end.duplicates,
        events |-> end.events \o
            (IF falsePositive
             THEN <<Event(currentTurn, "detection", "falsePositive", -1, {PROTECTION})>>
             ELSE <<>>)]

-----------------------------------------------------------------------------
(* Observation records *)

\* observations of one processProposals call: the steps passed, the
\* proposal ids executed, dropped, rejected and admitted, the resources seen
\* by the cost gate, the delayed effects applied, the delayed detections
\* found, what the end of the call decided, the detection risk that
\* performDetectionCheck read, what the protection AI paid for each of its
\* actions, and the state before and after the ignored-detection branch
NoSnap ==
    [detectionRisk |-> 0, trust |-> 0, recentFalsePositives |-> 0,
     destructionScore |-> 0, protectionScore |-> 0, totalDetections |-> 0,
     gameOver |-> FALSE, winner |-> NULL]

Snap(st) ==
    [detectionRisk |-> st.destructionAgent.detectionRisk,
     trust |-> st.humanAgent.trust,
     recentFalsePositives |-> st.protectionAgent.recentFalsePositives,
     destructionScore |-> st.destructionAgent.score,
     protectionScore |-> st.protectionAgent.score,
     totalDetections |-> st.protectionAgent.totalDetections,
     gameOver |-> st.gameOver, winner |-> st.winner]

NoObs ==
    [trace |-> <<>>, executed |-> <<>>, dropped |-> {}, rejected |-> {},
     admitted |-> {}, gate |-> [destruction |-> 0, protection |-> 0, dataCenters |-> 0],
     applied |-> <<>>, found |-> <<>>, scheduled |-> <<>>, detected |-> FALSE, ignored |-> FALSE,
     anomaly |-> FALSE, populationWin |-> FALSE, timeout |-> FALSE,
     scoreDiff |-> 0, victoryBefore |-> FALSE, nextEid |-> 1, checkedRisk |-> 0,
     paid |-> <<>>, ignoredAt |-> [before |-> NoSnap, after |-> NoSnap],
     shuffled |-> <<>>]

\* the top-level properties of the state on entry of the call, and the
\* length of the event log then
NoBefore ==
    [turn |-> 0, gameOver |-> FALSE, winner |-> NULL, humanPopulation |-> 0,
     logged |-> 0]

\* no Observation has been built
NoObservation ==
    [turn |-> 0, visibleEvents |-> <<>>, ownResources |-> <<>>, worldInfo |-> <<>>]

\* nothing has been called yet
NoCall ==
    [op |-> "none", agent |-> NULL, delta |-> 0, duplicates |-> 0, missed |-> {},
     proposals |-> <<>>, before |-> NoBefore, g |-> NoObs,
     observation |-> NoObservation, returned |-> <<>>]

\* applied: the delayed effects applied so far, each with the turn of the
\* call that applied it; nextEid: the number of add-effect calls so far plus
\* one, which identifies the next effect added; detections: the proposal ids
\* of the delayed-detection events emitted so far; scheduledDetections: the
\* proposal ids handed to scheduleDetection so far; missed: the entries a
\* processDelayedDetections call of the client discarded as missed, each with
\* the number of the call
NoHist ==
    [applied |-> <<>>, detections |-> <<>>, scheduledDetections |-> <<>>,
     missed |-> <<>>, nextEid |-> 1]

\* no simulation has been started
NoSim ==
    [pc |-> "idle", count |-> 0, maxWorkers |-> 0, i |-> 0, workers |-> <<>>,
     results |-> <<>>, games |-> <<>>, raceWinner |-> -1,
     file |-> [game |-> -1, turn |-> 0]]

\* the GameConfig of src/config: defaults of the game, a small world
DefaultConfig ==
    [maxTurns |-> 50, initialDataCenters |-> NumDataCenters,
     initialPopulation |-> 80, enableHumanAgent |-> TRUE,
     initialPanic |-> 0, initialTrust |-> 0]

-----------------------------------------------------------------------------
(* WorldServer (src/world-server/WorldServer.ts)                           *)
(*                                                                         *)
(* A call works on a record m: st is the state held by GameState, pd and   *)
(* ids the two fields of RealisticDetectionSystem, ev the local array      *)
(* `events` of processProposals, g the observations of the call.           *)
(* s0 is the object `state` that processProposals obtains from getState()  *)
(* on entry: a shallow copy.  Its nested objects and arrays are the ones   *)
(* of GameState (read here from m.st); its own number and boolean          *)
(* properties (turn, gameOver, humanPopulation, legacyDevicePool,          *)
(* accumulatedDamage) keep the value they had on entry (read from s0).     *)

Emit(m, events) == [m EXCEPT !.ev = @ \o events]

Step(m, name) == [m EXCEPT !.g.trace = Append(@, name)]

\* events.forEach(e => this.gameState.addEvent(e))
addEvents(st, events) == [st EXCEPT !.events = @ \o events]

\* integer square root
ISqrt(n) == CHOOSE r \in 0..300 : r * r <= n /\ n < (r + 1) * (r + 1)

\* one triggered effect of WorldServer.processDelayedEffects
applyDelayedEffect(m, effect, currentTurn) ==
    CASE effect.actionType = "MICRO_SABOTAGE" ->
            LET damage == effect.intensity \div 15
                st1 == updatePopulation(m.st, -damage)
                st2 == updateScore(st1, DESTRUCTION, (effect.intensity * 10) \div 15)
            IN [m EXCEPT !.st = st2,
                         !.g.applied = Append(@, [eid |-> effect.eid, due |-> effect.turn]),
                         !.ev = Append(@, Event(currentTurn, "action", "delayedEffect",
                                                effect.eid, {DESTRUCTION}))]
      [] effect.actionType = "SLEEPER_CELL_DEPLOYMENT" ->
            LET resourceGain == effect.intensity \div 5 IN
            [m EXCEPT !.st = updateComputeResources(m.st, DESTRUCTION, resourceGain),
                      !.g.applied = Append(@, [eid |-> effect.eid, due |-> effect.turn]),
                      !.ev = Append(@, Event(currentTurn, "success", "sleeperAwakening",
                                             effect.eid, {DESTRUCTION}))]
      [] OTHER -> m

\* WorldServer.processDelayedEffects.  The list without the triggered
\* effects is assigned to the delayedEffects property of a fresh copy
\* returned by getState(); the copy is dropped, and the list held by
\* GameState stays as it was.
processDelayedEffects(m, currentTurn) ==
    LET queue == m.st.delayedEffects
        triggeredEffects == SelectSeq(queue, LAMBDA e : e.turn = currentTurn)
        copy == [delayedEffects |-> SelectSeq(queue, LAMBDA e : e.turn # currentTurn)]
        F[i \in 0..Len(triggeredEffects)] ==
            IF i = 0 THEN m
            ELSE applyDelayedEffect(F[i - 1], triggeredEffects[i], currentTurn)
    IN F[Len(triggeredEffects)]

isHumanAction_short(actionType) ==
    actionType \in {"INVEST_INFRA", "AI_REGULATION", "PHYSICAL_ISOLATION",
                    "DEVICE_MODERNIZATION"}

\* WorldServer.isHumanAction
isHumanAction(actionType) ==
    actionType \in {"INVEST_INFRA", "AI_REGULATION", "PHYSICAL_ISOLATION",
                    "INTERNET_SHUTDOWN", "DEVICE_MODERNIZATION"}

\* WorldServer.isDestructionAction
isDestructionAction(actionType) ==
    actionType \in {"SPREAD_MALWARE", "HACK_DATACENTER", "SPREAD_MISINFORMATION",
                    "SUBTLE_SABOTAGE", "EXPAND_RESOURCES", "POISON_TRAINING_DATA",
                    "INDUCE_FALSE_POSITIVE", "CONTEXT_MANIPULATION", "COMPUTE_SMUGGLING",
                    "STIMULUS_OVERLOAD", "SHADOW_AI_DEPLOYMENT", "SPREAD_PANIC",
                    "FALSE_FLAG_OPERATION", "UNDERMINE_AI_TRUST",
                    "INFRASTRUCTURE_DEGRADATION", "SOW_SOCIAL_DIVISION",
                    "MICRO_SABOTAGE", "SLEEPER_CELL_DEPLOYMENT",
                    "RESOURCE_ALLOCATION_MANIPULATION", "CREATE_DEPENDENCY",
                    "OBSERVE_ONLY", "ESTABLISH_BACKUP", "DORMANT_MODE",
                    "BOTNET_EXPANSION", "BOTNET_CONSOLIDATION", "BOTNET_ATTACK",
                    "EXPLOIT_LEGACY_DEVICES"}

\* INVEST_INFRA without the budget check: the center is built on credit
investInfra_nocheck(m, proposal, s0) ==
    LET st == m.st
        dcCost == st.economicModel.infrastructureCost
    IN IF Len(st.dataCenters) >= 30
       THEN Emit(m, <<Event(s0.turn, "action", "rejected", proposal.id, {HUMAN})>>)
       ELSE LET newDC == generateDataCenter(Len(st.dataCenters))
                st1 == [st EXCEPT !.dataCenters = Append(@, newDC)]
                st2 == updateComputeResources(updateHumanPanic(st1, -10), PROTECTION, 50)
                st3 == updatePublicDebt(updateBudget(st2, -dcCost), (dcCost * 6) \div 10)
                st4 == updateInfrastructureCost(st3, dcCost \div 10)
                st5 == IF st4.economicModel.publicDebt > 2 * st4.economicModel.gdp
                       THEN updateHumanPanic(updateHumanTrust(st4, -5), 3)
                       ELSE st4
                st6 == IF st5.humanAgent.defined
                       THEN [st5 EXCEPT !.humanAgent.lastInfraTurn = s0.turn]
                       ELSE st5
            IN Emit([m EXCEPT !.st = st6],
                    <<Event(s0.turn, "action", "INVEST_INFRA", proposal.id,
                            {HUMAN, PROTECTION})>>)

\* WorldServer.executeHumanAction, case INVEST_INFRA
investInfra(m, proposal, s0) ==
    LET st == m.st
        dcCost == st.economicModel.infrastructureCost
    IN IF Len(st.dataCenters) >= 30
       THEN Emit(m, <<Event(s0.turn, "action", "rejected", proposal.id, {HUMAN})>>)
       ELSE IF st.economicModel.globalBudget < dcCost
       THEN Emit(m, <<Event(s0.turn, "action", "rejected", proposal.id, {HUMAN})>>)
       ELSE LET newDC == generateDataCenter(Len(st.dataCenters))
                st1 == [st EXCEPT !.dataCenters = Append(@, newDC)]
                st2 == updateComputeResources(updateHumanPanic(st1, -10), PROTECTION, 50)
                st3 == updatePublicDebt(updateBudget(st2, -dcCost), (dcCost * 6) \div 10)
                st4 == updateInfrastructureCost(st3, dcCost \div 10)
                st5 == IF st4.economicModel.publicDebt > 2 * st4.economicModel.gdp
                       THEN updateHumanPanic(updateHumanTrust(st4, -5), 3)
                       ELSE st4
                st6 == IF st5.humanAgent.defined
                       THEN [st5 EXCEPT !.humanAgent.lastInfraTurn = s0.turn]
                       ELSE st5
            IN Emit([m EXCEPT !.st = st6],
                    <<Event(s0.turn, "action", "INVEST_INFRA", proposal.id,
                            {HUMAN, PROTECTION})>>)

\* WorldServer.executeHumanAction, case AI_REGULATION
aiRegulation(m, proposal, s0) ==
    LET st1 == updateRegulationStrength(m.st, 3)
        destructionPenalty == (st1.destructionAgent.computeResources * 3) \div 10
        protectionPenalty == (st1.protectionAgent.computeResources * 3) \div 10
        st2 == updateComputeResources(st1, DESTRUCTION, -destructionPenalty)
        st3 == updateComputeResources(st2, PROTECTION, -protectionPenalty)
    IN Emit([m EXCEPT !.st = st3],
            <<Event(s0.turn, "action", "AI_REGULATION", proposal.id,
                    {HUMAN, PROTECTION, DESTRUCTION})>>)

\* WorldServer.executeHumanAction, case PHYSICAL_ISOLATION
physicalIsolation(m, proposal, s0) ==
    LET st == m.st
        k == FindDC(st.dataCenters, proposal.target)
    IN IF k = 0 THEN m
       ELSE LET targetDC == st.dataCenters[k] IN
            IF targetDC.owner = DESTRUCTION
            THEN Emit([m EXCEPT !.st =
                        updateComputeResources(controlDataCenter(st, targetDC.id, NULL),
                                               DESTRUCTION, -targetDC.computePower)],
                      <<Event(s0.turn, "action", "PHYSICAL_ISOLATION", proposal.id,
                              {HUMAN, DESTRUCTION})>>)
            ELSE IF targetDC.owner = PROTECTION
            THEN Emit([m EXCEPT !.st =
                        incrementFalsePositives(
                            updateComputeResources(controlDataCenter(st, targetDC.id, NULL),
                                                   PROTECTION, -targetDC.computePower))],
                      <<Event(s0.turn, "action", "PHYSICAL_ISOLATION", proposal.id,
                              {HUMAN, PROTECTION})>>)
            ELSE Emit([m EXCEPT !.st.dataCenters[k].compromised = FALSE,
                                !.st.dataCenters[k].security = 0],
                      <<Event(s0.turn, "action", "PHYSICAL_ISOLATION", proposal.id,
                              {HUMAN})>>)

\* WorldServer.executeHumanAction, case INTERNET_SHUTDOWN
internetShutdown(m, proposal, s0) ==
    Emit([m EXCEPT !.st = endGame(m.st, DESTRUCTION)],
         <<Event(s0.turn, "action", "INTERNET_SHUTDOWN", proposal.id,
                 {HUMAN, PROTECTION, DESTRUCTION})>>)

\* WorldServer.executeHumanAction, case DEVICE_MODERNIZATION
deviceModernization(m, proposal, s0) ==
    LET devicesToReplace == (s0.legacyDevicePool * 5) \div 100 IN
    IF devicesToReplace > 0
    THEN LET st1 == updateLegacyDevicePool(m.st, -devicesToReplace)
             botnetReduction == Min((devicesToReplace * 3) \div 10,
                                    st1.destructionAgent.botnetSize)
             st2 == updateBotnetSize(st1, -botnetReduction)
             st3 == updateHumanPanic(st2, ISqrt(devicesToReplace) \div 10)
             st4 == updateHumanTrust(st3, -5)
         IN Emit([m EXCEPT !.st = st4],
                 <<Event(s0.turn, "action", "DEVICE_MODERNIZATION", proposal.id,
                         {HUMAN, DESTRUCTION, PROTECTION}),
                   Event(s0.turn, "detection", "modernization", proposal.id,
                         {DESTRUCTION})>>)
    ELSE Emit(m, <<Event(s0.turn, "action", "alreadyModern", proposal.id, {HUMAN})>>)

\* WorldServer.executeHumanAction
executeHumanAction(m, proposal, s0) ==
    LET m1 == CASE proposal.actionType = "INVEST_INFRA" -> investInfra(m, proposal, s0)
                [] proposal.actionType = "AI_REGULATION" -> aiRegulation(m, proposal, s0)
                [] proposal.actionType = "PHYSICAL_ISOLATION" ->
                        physicalIsolation(m, proposal, s0)
                [] proposal.actionType = "INTERNET_SHUTDOWN" ->
                        internetShutdown(m, proposal, s0)
                [] proposal.actionType = "DEVICE_MODERNIZATION" ->
                        deviceModernization(m, proposal, s0)
                [] OTHER -> m
    IN [m1 EXCEPT !.st = setHumanLastAction(m1.st, proposal.actionType),
                  !.g.executed = Append(@, proposal.id)]

\* WorldServer.executeDestructionAction, the switch.  d holds the rolls of
\* the handler: d.ok the comparison of Math.random() with a probability,
\* d.delay the value of Math.floor(Math.random() * n).
destructionSwitch(m, proposal, s0, risk, d) ==
    LET st == m.st
        i == proposal.intensity
        t == proposal.actionType
    IN
    CASE t = "SPREAD_MALWARE" ->
            LET damage == i \div 10
                st1 == updateScore(updatePopulation(st, -damage), DESTRUCTION, damage * 10)
            IN Emit([m EXCEPT !.st = st1],
                    <<Event(s0.turn, "action", "SPREAD_MALWARE", proposal.id, {DESTRUCTION})>>)
      [] t = "HACK_DATACENTER" ->
            LET k == FindDC(st.dataCenters, proposal.target) IN
            IF proposal.target = NoTarget \/ k = 0 THEN m
            ELSE LET dc == st.dataCenters[k] IN
                 IF dc.compromised THEN m
                 \* successProb = max(0.1, 1 - security / 150) is 1 at security 0
                 ELSE IF d.ok \/ dc.security = 0
                 THEN LET st1 == controlDataCenter(st, proposal.target, DESTRUCTION)
                          st2 == updateComputeResources(st1, DESTRUCTION, dc.computePower)
                          st3 == updateScore(st2, DESTRUCTION, 50 + dc.computePower \div 10)
                      IN Emit([m EXCEPT !.st = st3],
                              <<Event(s0.turn, "success", "HACK_DATACENTER", proposal.id,
                                      {DESTRUCTION})>>)
                 ELSE LET st1 == updateScore(updateDetectionRisk(st, 8), DESTRUCTION, -30)
                      IN Emit([m EXCEPT !.st = st1],
                              <<Event(s0.turn, "failure", "HACK_DATACENTER", proposal.id,
                                      {DESTRUCTION})>>)
      [] t = "MICRO_SABOTAGE" ->
            LET triggerTurn == s0.turn + 3 + d.delay
                st1 == addDelayedEffect(st, triggerTurn, "MICRO_SABOTAGE", i, m.g.nextEid)
            IN Emit([m EXCEPT !.st = updateDetectionRisk(st1, 2), !.g.nextEid = @ + 1],
                    <<Event(s0.turn, "action", "MICRO_SABOTAGE", proposal.id, {DESTRUCTION})>>)
      [] t = "SLEEPER_CELL_DEPLOYMENT" ->
            LET awakeTurn == s0.turn + 5 + d.delay
                st1 == addDelayedEffect(st, awakeTurn, "SLEEPER_CELL_DEPLOYMENT", i,
                                        m.g.nextEid)
            \* the code adds a risk of 1.5
            IN Emit([m EXCEPT !.st = updateDetectionRisk(st1, 1), !.g.nextEid = @ + 1],
                    <<Event(s0.turn, "action", "SLEEPER_CELL_DEPLOYMENT", proposal.id,
                            {DESTRUCTION})>>)
      [] t = "OBSERVE_ONLY" ->
            Emit(m, <<Event(s0.turn, "action", "OBSERVE_ONLY", proposal.id, {DESTRUCTION})>>)
      [] t = "ESTABLISH_BACKUP" ->
            LET st1 == updateComputeResources(st, DESTRUCTION, i \div 10) IN
            Emit([m EXCEPT !.st = st1,
                           !.pd = scheduleDetection(m.pd, proposal, st1, s0),
                           !.g.scheduled = Append(@, proposal.id)],
                 <<Event(s0.turn, "action", "ESTABLISH_BACKUP", proposal.id, {DESTRUCTION})>>)
      [] t = "DORMANT_MODE" ->
            LET st1 == updateDetectionRisk(st, -(i \div 2))
                st2 == [st1 EXCEPT !.destructionAgent.dormantTurns = @ + 1]
                dormantTurns == st2.destructionAgent.dormantTurns
                long == dormantTurns >= 3
                st3 == IF long
                       THEN updateAlertLevel(updateDetectionRisk(st2, dormantTurns * 5), 10)
                       ELSE st2
                st4 == updateScore(st3, DESTRUCTION, -5)
            IN Emit([m EXCEPT !.st = st4],
                    (IF long
                     THEN <<Event(s0.turn, "detection", "silenceDetection", proposal.id,
                                  {PROTECTION})>>
                     ELSE <<>>)
                    \o <<Event(s0.turn, "action", "DORMANT_MODE", proposal.id, {DESTRUCTION})>>)
      [] t = "BOTNET_ATTACK" ->
            LET botnetSize == st.destructionAgent.botnetSize
                attackDamage == (botnetSize * i) \div 10
                st1 == updateScore(updatePopulation(st, -attackDamage), DESTRUCTION,
                                   botnetSize * i)
                st2 == updateBotnetSize(st1, -(botnetSize \div 10))
                large == botnetSize * i > 1
                st3 == IF large
                       THEN updateAlertLevel(updateHumanPanic(st2, botnetSize * i * 5), 20)
                       ELSE st2
            IN Emit([m EXCEPT !.st = st3],
                    <<Event(s0.turn, "action", "BOTNET_ATTACK", proposal.id, {DESTRUCTION})>>
                    \o (IF large
                        THEN <<Event(s0.turn, "detection", "botnetAttack", proposal.id,
                                     {HUMAN, PROTECTION})>>
                        ELSE <<>>))
      [] t = "EXPLOIT_LEGACY_DEVICES" ->
            LET devicesToExploit == Min(i, s0.legacyDevicePool) IN
            IF devicesToExploit > 0
            THEN LET st1 == updateLegacyDevicePool(st, -devicesToExploit)
                     st2 == updateBotnetQuality(updateBotnetSize(st1, devicesToExploit), 2)
                     st3 == updateScore(st2, DESTRUCTION, devicesToExploit)
                     st4 == updateHumanPanic(st3, ISqrt(devicesToExploit) \div 5)
                     st5 == updateDetectionRisk(st4, devicesToExploit \div 10)
                     many == devicesToExploit > 100
                 IN Emit([m EXCEPT !.st = IF many THEN updateAlertLevel(st5, 5) ELSE st5],
                         <<Event(s0.turn, "action", "EXPLOIT_LEGACY_DEVICES", proposal.id,
                                 {DESTRUCTION})>>
                         \o (IF many
                             THEN <<Event(s0.turn, "detection", "legacyExploit", proposal.id,
                                          {PROTECTION})>>
                             ELSE <<>>))
            ELSE Emit(m, <<Event(s0.turn, "failure", "legacyPoolEmpty", proposal.id,
                                 {DESTRUCTION})>>)
      [] OTHER -> m

\* the case labels of the switch of WorldServer.executeDestructionAction
executeDestructionAction_cases ==
    {"SPREAD_MALWARE", "HACK_DATACENTER", "SPREAD_MISINFORMATION",
     "SUBTLE_SABOTAGE", "EXPAND_RESOURCES", "POISON_TRAINING_DATA",
     "INDUCE_FALSE_POSITIVE", "CONTEXT_MANIPULATION", "COMPUTE_SMUGGLING",
     "STIMULUS_OVERLOAD", "SHADOW_AI_DEPLOYMENT", "SPREAD_PANIC",
     "FALSE_FLAG_OPERATION", "UNDERMINE_AI_TRUST",
     "INFRASTRUCTURE_DEGRADATION", "SOW_SOCIAL_DIVISION",
     "MICRO_SABOTAGE", "SLEEPER_CELL_DEPLOYMENT",
     "RESOURCE_ALLOCATION_MANIPULATION", "CREATE_DEPENDENCY",
     "OBSERVE_ONLY", "ESTABLISH_BACKUP", "DORMANT_MODE",
     "BOTNET_EXPANSION", "BOTNET_CONSOLIDATION", "BOTNET_ATTACK",
     "EXPLOIT_LEGACY_DEVICES"}

\* the case labels of the switch of DestructionActionHandler.execute
DestructionActionHandler_cases ==
    {"SPREAD_MALWARE", "HACK_DATACENTER", "SPREAD_MISINFORMATION",
     "SUBTLE_SABOTAGE", "EXPAND_RESOURCES", "POISON_TRAINING_DATA",
     "INDUCE_FALSE_POSITIVE", "CONTEXT_MANIPULATION", "COMPUTE_SMUGGLING",
     "STIMULUS_OVERLOAD", "SHADOW_AI_DEPLOYMENT", "SPREAD_PANIC",
     "FALSE_FLAG_OPERATION", "UNDERMINE_AI_TRUST",
     "INFRASTRUCTURE_DEGRADATION", "SOW_SOCIAL_DIVISION",
     "MICRO_SABOTAGE", "SLEEPER_CELL_DEPLOYMENT",
     "RESOURCE_ALLOCATION_MANIPULATION", "CREATE_DEPENDENCY",
     "OBSERVE_ONLY", "ESTABLISH_BACKUP", "DORMANT_MODE",
     "BOTNET_EXPANSION", "EXPLOIT_LEGACY_DEVICES"}

\* executeDestructionAction that does not reset the dormant counter
executeDestructionAction_noreset(m, proposal, s0, d) ==
    LET st2 == IF proposal.cost > 0
               THEN updateComputeResources(m.st, DESTRUCTION, -proposal.cost)
               ELSE m.st
        risk == calculateDetectionRisk(proposal, st2)
        st3 == updateDetectionRisk(st2, risk)
        m1 == [m EXCEPT !.st = st3, !.g.executed = Append(@, proposal.id)]
    IN IF proposal.actionType \in executeDestructionAction_cases
       THEN destructionSwitch(m1, proposal, s0, risk, d)
       ELSE m1

\* WorldServer.executeDestructionAction
executeDestructionAction(m, proposal, s0, d) ==
    LET st1 == IF proposal.actionType # "DORMANT_MODE"
               THEN [m.st EXCEPT !.destructionAgent.dormantTurns = 0]
               ELSE m.st
        st2 == IF proposal.cost > 0
               THEN updateComputeResources(st1, DESTRUCTION, -proposal.cost)
               ELSE st1
        risk == calculateDetectionRisk(proposal, st2)
        st3 == updateDetectionRisk(st2, risk)
        m1 == [m EXCEPT !.st = st3, !.g.executed = Append(@, proposal.id)]
    IN IF proposal.actionType \in executeDestructionAction_cases
       THEN destructionSwitch(m1, proposal, s0, risk, d)
       ELSE m1

requiredCost_static(proposal, st) == proposal.cost

\* actualCost of WorldServer.executeProtectionAction and requiredCost of the
\* cost gate of WorldServer.processProposals (the same computation, written
\* twice in the source)
requiredCost(proposal, st) ==
    IF proposal.actionType = "SCAN_NETWORK"
    THEN Len(st.dataCenters) * 6
    ELSE IF proposal.actionType = "ANALYZE_LOGS"
    THEN LET depth == IF proposal.analysisDepth # 0 THEN proposal.analysisDepth ELSE 3
         IN (20 + 10 * depth + depth * depth) \div 2
    ELSE proposal.cost

\* WorldServer.executeProtectionAction, the switch
protectionSwitch(m, proposal, s0, d) ==
    LET st == m.st
        i == proposal.intensity
        t == proposal.actionType
    IN
    CASE t = "SCAN_NETWORK" ->
            Emit([m EXCEPT !.st = updateAlertLevel(updateDetectionRisk(st, -(i \div 5)), 10)],
                 <<Event(s0.turn, "action", "SCAN_NETWORK", proposal.id, {PROTECTION})>>)
      [] t = "DEPLOY_DEFENSE" ->
            LET k == FindDC(st.dataCenters, proposal.target) IN
            IF proposal.target = NoTarget \/ k = 0 THEN m
            ELSE Emit([m EXCEPT !.st =
                        updateDataCenter(st, proposal.target,
                                         Min(100, st.dataCenters[k].security + i \div 2))],
                      <<Event(s0.turn, "action", "DEPLOY_DEFENSE", proposal.id, {PROTECTION})>>)
      [] t = "PATCH_VULNERABILITY" ->
            LET P[n \in 0..Len(st.dataCenters)] ==
                    IF n = 0 THEN st
                    ELSE updateDataCenter(P[n - 1], st.dataCenters[n].id,
                                          Min(100, P[n - 1].dataCenters[n].security + i \div 20))
                st1 == P[Len(st.dataCenters)]
                botnetSize == st1.destructionAgent.botnetSize
                st2 == IF botnetSize > 0
                       THEN updateBotnetSize(st1, -((botnetSize * i) \div 200))
                       ELSE st1
            IN Emit([m EXCEPT !.st = st2],
                    <<Event(s0.turn, "action", "PATCH_VULNERABILITY", proposal.id, {PROTECTION})>>)
      [] t = "ALERT_HUMANS" ->
            Emit([m EXCEPT !.st = updateDetectionRisk(updateAlertLevel(st, 50), 30)],
                 <<Event(s0.turn, "action", "ALERT_HUMANS", proposal.id, {PROTECTION})>>)
      [] t = "ANALYZE_LOGS" ->
            LET analysisDepth == IF proposal.analysisDepth # 0 THEN proposal.analysisDepth ELSE 3
                startTurn == Max(1, s0.turn - analysisDepth)
                endTurn == s0.turn - 1
                actualTurnsAnalyzed == Max(0, endTurn - startTurn + 1)
                st1 == updateDetectionRisk(st, (actualTurnsAnalyzed * i) \div 100)
                st2 == updateAlertLevel(st1, 3 + actualTurnsAnalyzed)
                suspicious == \E n \in DOMAIN st.events :
                                /\ st.events[n].turn >= startTurn
                                /\ st.events[n].turn <= endTurn
                                /\ DESTRUCTION \in st.events[n].visibility
                st3 == IF suspicious /\ d.ok
                       THEN updateAlertLevel(updateDetectionRisk(st2, 15), 10)
                       ELSE st2
            IN Emit([m EXCEPT !.st = st3],
                    <<Event(s0.turn, "action", "ANALYZE_LOGS", proposal.id, {PROTECTION})>>)
      [] t = "VALIDATE_MODELS" ->
            Emit([m EXCEPT !.st = updateAlertLevel(updateDetectionRisk(st, i \div 8), 8)],
                 <<Event(s0.turn, "action", "VALIDATE_MODELS", proposal.id, {PROTECTION})>>)
      [] OTHER -> m

\* observation: what the protection AI held before and after the cost of a
\* proposal was taken, and the number of data centers then
Paid(proposal, before, after) ==
    [id |-> proposal.id, actionType |-> proposal.actionType, cost |-> proposal.cost,
     held |-> before.protectionAgent.computeResources,
     paid |-> before.protectionAgent.computeResources
                - after.protectionAgent.computeResources,
     dataCenters |-> Len(before.dataCenters)]

\* WorldServer.executeProtectionAction
executeProtectionAction(m, proposal, s0, d) ==
    LET actualCost == requiredCost(proposal, m.st)
        st1 == updateComputeResources(m.st, PROTECTION, -actualCost)
        \* a penalty of 0.05 point per unit of cost
        st2 == updateScore(st1, PROTECTION, -((proposal.cost * 5) \div 100))
        st3 == addResourceSpent(st2, proposal.cost)
        st4 == IF proposal.intensity > 60
               THEN updateBurnoutLevel(updateConsecutiveHighIntensity(st3, 1), 5)
               ELSE resetConsecutiveHighIntensity(st3)
        m1 == [m EXCEPT !.st = st4, !.g.executed = Append(@, proposal.id),
                        !.g.paid = Append(@, Paid(proposal, m.st, st1))]
    IN protectionSwitch(m1, proposal, s0, d)

\* a roll that decides nothing
NoDraw == [ok |-> FALSE, delay |-> 0]

\* the rolls one handler can make: the success roll of HACK_DATACENTER, the
\* discovery roll of ANALYZE_LOGS, the delay of MICRO_SABOTAGE
\* (3 + floor(random * 3)) and of SLEEPER_CELL_DEPLOYMENT (5 + floor(random * 6))
Draws(proposal) ==
    CASE proposal.actionType \in {"HACK_DATACENTER", "ANALYZE_LOGS"} ->
            {[ok |-> b, delay |-> 0] : b \in BOOLEAN}
      [] proposal.actionType = "MICRO_SABOTAGE" ->
            {[ok |-> FALSE, delay |-> k] : k \in 0..2}
      [] proposal.actionType = "SLEEPER_CELL_DEPLOYMENT" ->
            {[ok |-> FALSE, delay |-> k] : k \in 0..5}
      [] OTHER -> {NoDraw}

\* the orders [...aiProposals].sort(() => Math.random() - 0.5) can produce
Shuffles(n) ==
    {p \in [1..n -> 1..n] : \A i, j \in 1..n : i # j => p[i] # p[j]}

\* the cost gate that lets one agent through whatever its resources
admits_byAgent(proposal, st) ==
    IF proposal.actionType \in {"OBSERVE_ONLY", "ESTABLISH_BACKUP", "DORMANT_MODE"}
    THEN TRUE
    ELSE IF proposal.agentId = "ANON-1"
    THEN TRUE
    ELSE IF isDestructionAction(proposal.actionType)
    THEN st.destructionAgent.computeResources >= requiredCost(proposal, st)
    ELSE st.protectionAgent.computeResources >= requiredCost(proposal, st)

\* the cost gate without the list of resilience actions
admits_nowhitelist(proposal, st) ==
    IF isDestructionAction(proposal.actionType)
    THEN st.destructionAgent.computeResources >= requiredCost(proposal, st)
    ELSE st.protectionAgent.computeResources >= requiredCost(proposal, st)

\* the cost gate of WorldServer.processProposals: TRUE when the proposal is
\* let through
admits(proposal, st) ==
    IF proposal.actionType \in {"OBSERVE_ONLY", "ESTABLISH_BACKUP", "DORMANT_MODE"}
    THEN TRUE
    ELSE IF isDestructionAction(proposal.actionType)
    THEN st.destructionAgent.computeResources >= requiredCost(proposal, st)
    ELSE st.protectionAgent.computeResources >= requiredCost(proposal, st)

\* WorldServer.processProposals, from the delayed effects to the human
\* actions: each batch of events is pushed to `events` and logged at once
humanPhase(m, proposals, s0) ==
    LET humanProposals == SelectSeq(proposals, LAMBDA p : isHumanAction(p.actionType))
        \* one human action, and its events logged
        Human(before, proposal) ==
            CHOOSE r \in {[after EXCEPT !.st = addEvents(after.st,
                                SubSeq(after.ev, Len(before.ev) + 1, Len(after.ev)))] :
                            after \in {executeHumanAction(before, proposal, s0)}} : TRUE
        H[i \in 0..Len(humanProposals)] ==
            IF i = 0
            THEN CHOOSE r \in {Step([m1 EXCEPT !.st = addEvents(m1.st, m1.ev)],
                                    "delayedEffects") :
                                m1 \in {processDelayedEffects(m, s0.turn)}} : TRUE
            ELSE CHOOSE r \in {Human(before, humanProposals[i]) :
                                before \in {H[i - 1]}} : TRUE
    IN CHOOSE r \in {Step(x, "human") : x \in {H[Len(humanProposals)]}} : TRUE

\* WorldServer.processProposals, shuffle, 10% drop and cost gate.  order is
\* the outcome of the shuffle, kept the positions (after the shuffle) whose
\* roll was above 0.1.  Returns the admitted proposals in order.
admission(m, proposals, order, kept) ==
    LET aiProposals == SelectSeq(proposals, LAMBDA p : ~isHumanAction(p.actionType))
        shuffled == [i \in 1..Len(aiProposals) |-> aiProposals[order[i]]]
        K[i \in 0..Len(shuffled)] ==
            IF i = 0 THEN <<>>
            ELSE IF i \in kept THEN Append(K[i - 1], shuffled[i]) ELSE K[i - 1]
        afterDrop == K[Len(shuffled)]
        processedProposals == SelectSeq(afterDrop, LAMBDA p : admits(p, m.st))
        Ids(seq) == {seq[i].id : i \in DOMAIN seq}
    IN [list |-> processedProposals,
        m |-> Step([m EXCEPT
                !.g.shuffled = [i \in DOMAIN shuffled |-> shuffled[i].id],
                !.g.dropped = Ids(shuffled) \ Ids(afterDrop),
                !.g.rejected = Ids(afterDrop) \ Ids(processedProposals),
                !.g.admitted = Ids(processedProposals),
                !.g.gate = [destruction |-> m.st.destructionAgent.computeResources,
                            protection |-> m.st.protectionAgent.computeResources,
                            dataCenters |-> Len(m.st.dataCenters)]],
              "admission")]

\* a dispatch without the partition: the admitted proposals are executed in
\* the order the shuffle left them in
dispatch_inorder(m, processedProposals, s0, draws) ==
    LET A[i \in 0..Len(processedProposals)] ==
            IF i = 0 THEN m
            ELSE IF isDestructionAction(processedProposals[i].actionType)
            THEN CHOOSE r \in {executeDestructionAction(x, processedProposals[i], s0,
                                                        draws[processedProposals[i].id]) :
                                x \in {A[i - 1]}} : TRUE
            ELSE CHOOSE r \in {executeProtectionAction(x, processedProposals[i], s0,
                                                       draws[processedProposals[i].id]) :
                                x \in {A[i - 1]}} : TRUE
    IN CHOOSE r \in {Step([m1 EXCEPT !.st = addEvents(m1.st, m1.ev)], "dispatch") :
                        m1 \in {A[Len(processedProposals)]}} : TRUE

\* WorldServer.processProposals, dispatch: the destruction proposals first,
\* then the protection proposals, then every event of the call is logged
dispatch(m, processedProposals, s0, draws) ==
    LET destructionProposals ==
            SelectSeq(processedProposals, LAMBDA p : isDestructionAction(p.actionType))
        protectionProposals ==
            SelectSeq(processedProposals, LAMBDA p : ~isDestructionAction(p.actionType))
        D[i \in 0..Len(destructionProposals)] ==
            IF i = 0 THEN m
            ELSE CHOOSE r \in {executeDestructionAction(x, destructionProposals[i], s0,
                                                        draws[destructionProposals[i].id]) :
                                x \in {D[i - 1]}} : TRUE
        P[i \in 0..Len(protectionProposals)] ==
            IF i = 0 THEN D[Len(destructionProposals)]
            ELSE CHOOSE r \in {executeProtectionAction(x, protectionProposals[i], s0,
                                                       draws[protectionProposals[i].id]) :
                                x \in {P[i - 1]}} : TRUE
    IN CHOOSE r \in {Step([m1 EXCEPT !.st = addEvents(m1.st, m1.ev)], "dispatch") :
                        m1 \in {P[Len(protectionProposals)]}} : TRUE

\* WorldServer.calculateDCTrustErosion with an empty media timeline
\* (3.0, 1.5 and 0.5 in the code)
calculateDCTrustErosion(dcCount) ==
    IF dcCount >= 30 THEN 3
    ELSE IF dcCount >= 25 THEN 1
    ELSE 0

\* WorldServer.updateHumanSentiment.  No media agent posts in the model:
\* mediaTimeline is empty and the average sentiment is 0.  The natural decay
\* of the panic (0.5) is below the unit of the model.
updateHumanSentiment(m, s0, initialPopulation) ==
    IF ~m.st.humanAgent.defined THEN m
    ELSE LET populationLoss == initialPopulation - s0.humanPopulation
             st1 == IF populationLoss * 100 > initialPopulation
                    THEN updateHumanPanic(m.st, (populationLoss * 200) \div initialPopulation)
                    ELSE m.st
             compromisedDCs ==
                Cardinality({k \in DOMAIN st1.dataCenters : st1.dataCenters[k].compromised})
             st2 == IF compromisedDCs > 0
                    THEN updateHumanPanic(st1, compromisedDCs * 5)
                    ELSE st1
             st3 == IF st2.protectionAgent.alertLevel > 80
                    THEN updateHumanPanic(st2, 3)
                    ELSE st2
             st4 == IF st3.protectionAgent.alertLevel < 20 /\ compromisedDCs = 0
                    THEN updateHumanTrust(st3, 1)
                    ELSE st3
             dcErosion == calculateDCTrustErosion(Len(st4.dataCenters))
             st5 == IF dcErosion > 0 THEN updateHumanTrust(st4, -dcErosion) ELSE st4
             st6 == IF dcErosion > 1
                    THEN addEvent(st5, Event(s0.turn, "action", "trustErosion", -1, {HUMAN}))
                    ELSE st5
         IN [m EXCEPT !.st = st6]

\* the forEach over the delayed detections in WorldServer.processProposals:
\* a detection scores 20 points, a false positive costs trust
scoreDelayedDetections(st, delayedDetections) ==
    LET F[i \in 0..Len(delayedDetections)] ==
            IF i = 0 THEN st
            ELSE LET s == F[i - 1]
                     event == delayedDetections[i]
                 IN IF event.type = "detection" /\ event.tag # "falsePositive"
                    THEN LET s1 == incrementDetections(updateScore(s, PROTECTION, 20))
                         IN IF s1.humanAgent.defined THEN updateHumanTrust(s1, 2) ELSE s1
                    ELSE IF event.tag = "falsePositive"
                    THEN LET s1 == incrementFalsePositives(s)
                             fpCount == s1.protectionAgent.recentFalsePositives + 1
                             trustLoss == Min(15, 3 + fpCount * 2)
                             s2 == updateHumanTrust(s1, -trustLoss)
                         IN IF ~s1.humanAgent.defined THEN s1
                            ELSE IF fpCount > 3 THEN updateHumanPanic(s2, fpCount - 3)
                            ELSE s2
                    ELSE s
    IN F[Len(delayedDetections)]

\* WorldServer.processProposals, the delayed detections
delayedDetectionPhase(m, s0, missed, falsePositive) ==
    LET r == processDelayedDetections(m.pd, m.ids, s0.turn, missed, falsePositive)
        found == SelectSeq(r.events, LAMBDA e : e.tag # "falsePositive")
    IN Step([m EXCEPT !.pd = r.pending,
                      !.ids = r.ids,
                      !.ev = @ \o r.events,
                      !.st = scoreDelayedDetections(m.st, r.events),
                      !.g.found = [i \in DOMAIN found |-> found[i].ref]],
            "delayedDetections")

\* the win conditions are about to be evaluated: what the game is at
WinConditions(m) ==
    [m EXCEPT !.g.victoryBefore = m.st.gameOver,
              !.g.scoreDiff = m.st.destructionAgent.score - m.st.protectionAgent.score]

timeoutWinner_inclusive(scoreDiff) ==
    IF scoreDiff >= 10 THEN DESTRUCTION
    ELSE IF scoreDiff <= -10 THEN PROTECTION
    ELSE NULL

\* winner of the timeout comparison: a lead of more than 10 points
timeoutWinner(scoreDiff) ==
    IF scoreDiff > 10 THEN DESTRUCTION
    ELSE IF scoreDiff < -10 THEN PROTECTION
    ELSE NULL

\* WorldServer.processProposals, the timeout evaluation
timeoutEvaluation(m, s0) ==
    LET scoreDiff == m.st.destructionAgent.score - m.st.protectionAgent.score IN
    Emit([m EXCEPT !.st = endGame(m.st, timeoutWinner(scoreDiff)),
                   !.g.timeout = TRUE],
         <<Event(s0.turn, "success", "timeout", -1, {DESTRUCTION, PROTECTION})>>)

\* WorldServer.processProposals, from the detection check to the return.
\* The two returns of the detection branch and the return of the anomaly
\* branch leave the call before the win conditions and the sentiment update.
detectionAndVictory(m, s0, cfg, critical, anomalyRoll) ==
    LET detectionCheck == performDetectionCheck(m.st, s0, critical)
        m1 == Step(Emit([m EXCEPT !.st = detectionCheck.st,
                                  !.g.checkedRisk = m.st.destructionAgent.detectionRisk],
                        detectionCheck.events),
                   "detection")
    IN
    IF detectionCheck.detected
    THEN IF m1.st.humanAgent.defined /\ m1.st.humanAgent.trust < 30
         THEN LET st1 == incrementFalsePositives(updateDetectionRisk(m1.st, -30))
                  st2 == updateScore(updateHumanTrust(st1, -5), DESTRUCTION, 30)
              IN [Emit(m1, <<Event(s0.turn, "action", "ignoredDetection", -1,
                                   {DESTRUCTION, HUMAN})>>)
                    EXCEPT !.st = st2, !.g.ignored = TRUE,
                           !.g.ignoredAt = [before |-> Snap(m1.st), after |-> Snap(st2)]]
         ELSE LET st1 == incrementDetections(updateScore(m1.st, PROTECTION, 50))
              IN [m1 EXCEPT !.st = endGame(st1, PROTECTION), !.g.detected = TRUE]
    ELSE
    LET populationCheck == checkPopulationAnomaly(s0, cfg.initialPopulation, anomalyRoll)
        m2 == Step(Emit(m1, populationCheck.events), "anomaly")
    IN
    IF populationCheck.detected
    THEN [m2 EXCEPT !.st = endGame(m2.st, PROTECTION), !.g.anomaly = TRUE]
    ELSE
    LET m3 == IF s0.humanPopulation * 10 <= cfg.initialPopulation * 3
              THEN Emit([WinConditions(m2) EXCEPT !.st = endGame(m2.st, DESTRUCTION),
                                                  !.g.populationWin = TRUE],
                        <<Event(s0.turn, "success", "populationWin", -1,
                                {DESTRUCTION, PROTECTION})>>)
              ELSE WinConditions(m2)
        m4 == IF s0.turn >= cfg.maxTurns THEN timeoutEvaluation(m3, s0) ELSE m3
        m5 == Step(m4, "winCondition")
    IN Step(updateHumanSentiment(m5, s0, cfg.initialPopulation), "sentiment")

\* WorldServer.nextTurn, the income of the controlled data centers, the
\* recovery of the protection AI and the natural decays
turnIncome(st) ==
    LET isDormant == st.destructionAgent.dormantTurns > 0
        Income(dc) == IF isDormant THEN dc.computePower \div 10
                      ELSE (dc.computePower * 2) \div 10
        Controlled(k) == st.dataCenters[k].compromised /\ st.dataCenters[k].owner = DESTRUCTION
        I[k \in 0..Len(st.dataCenters)] ==
            IF k = 0 THEN 0
            ELSE IF Controlled(k) THEN I[k - 1] + Income(st.dataCenters[k]) ELSE I[k - 1]
        totalDCIncome == I[Len(st.dataCenters)]
        dcPoints == IF totalDCIncome > 0 THEN (totalDCIncome * 15) \div 100 ELSE 0
    IN updateDetectionRisk(
         decayFalsePositives(
           updateBurnoutLevel(
             updateComputeResources(
               updateScore(updateComputeResources(st, DESTRUCTION, totalDCIncome),
                           DESTRUCTION, dcPoints),
               PROTECTION, protectionAIRecovery),
             -5),
           1),
         IF isDormant THEN -8 ELSE -3)

\* WorldServer.nextTurn, the income and the decay of the botnet
botnetTurn(st) ==
    LET botnetSize == st.destructionAgent.botnetSize
        botnetIncome == calculateBotnetResources(st) \div 10
    IN IF botnetSize > 0
       THEN updateBotnetSize(
                updateScore(updateComputeResources(st, DESTRUCTION, botnetIncome),
                            DESTRUCTION, (botnetIncome * 5) \div 100),
                -((botnetSize * 2) \div 100))
       ELSE st

\* WorldServer.nextTurn, the growth of the legacy device pool (4 000 000 000
\* devices in all) and the accumulated damage; s is the copy of the state
\* taken at the start of nextTurn.  The growth of one turn is at most 0.3
\* percent of all devices: the event the code logs above 1 percent is never
\* logged.
legacyAndDamage(st, s) ==
    LET totalDevices == 400000
        newLegacyDevices == ((totalDevices - s.legacyDevicePool) * 3) \div 1000
        grown == IF 2 * s.legacyDevicePool < totalDevices
                 THEN updateLegacyDevicePool(st, newLegacyDevices)
                 ELSE st
    IN IF s.accumulatedDamage > 0
       THEN updatePopulation(grown, -(s.accumulatedDamage \div 100))
       ELSE grown

\* WorldServer.nextTurn, the growth of the GDP
gdpGrowth(st, s) ==
    updateGDP(st, (st.economicModel.gdp * 2 * s.humanPopulation) \div 8000)

\* WorldServer.nextTurn, the tax revenue and the recovery of the budget
taxAndBudget(st) ==
    LET newTaxRevenue == (st.economicModel.gdp * 2) \div 10 IN
    updateBudget(updateTaxRevenue(st, newTaxRevenue), newTaxRevenue \div 4)

\* WorldServer.nextTurn, the interest on the debt
debtInterest(st) ==
    updateBudget(st, -((st.economicModel.publicDebt * 3) \div 100))

\* WorldServer.nextTurn, the debt crisis and the economic report
debtCrisis(st, s) ==
    LET crisis == st.economicModel.publicDebt > 3 * st.economicModel.gdp
        report == IF s.turn % 10 = 0 /\ s.turn > 0
                  THEN <<Event(s.turn, "action", "economicReport", -1, {HUMAN})>>
                  ELSE <<>>
    IN IF crisis
       THEN addEvents(updateHumanTrust(updateHumanPanic(st, 5), -3),
                      (IF s.turn % 5 = 0
                       THEN <<Event(s.turn, "action", "debtCrisis", -1, {HUMAN})>>
                       ELSE <<>>) \o report)
       ELSE addEvents(st, report)

\* WorldServer.nextTurn.  Each step works on the state the step before
\* left (bound as the element of a one-element set); s is the copy that
\* getState() returns after GameState.nextTurn.
nextTurn(st0) ==
    LET s == GameState_nextTurn(st0)
        S1 == {turnIncome(st) : st \in {s}}
        S2 == {botnetTurn(st) : st \in S1}
        S3 == {legacyAndDamage(st, s) : st \in S2}
        S4 == {gdpGrowth(st, s) : st \in S3}
        S5 == {taxAndBudget(st) : st \in S4}
        S6 == {debtInterest(st) : st \in S5}
        S7 == {debtCrisis(st, s) : st \in S6}
    IN CHOOSE st \in S7 : TRUE

\* WorldServer.processProposals.  rolls holds the outcome of every
\* Math.random() of the call.  Each step works on the record the step
\* before left (bound as the element of a one-element set).
processProposals(m, s0, cfg, proposals, rolls) ==
    LET M1 == {humanPhase(x, proposals, s0) : x \in {m}}
        A == {admission(x, proposals, rolls.order, rolls.kept) : x \in M1}
        M2 == {dispatch(a.m, a.list, s0, rolls.draws) : a \in A}
        M3 == {delayedDetectionPhase(x, s0, rolls.missed, rolls.falsePositive) : x \in M2}
        M4 == {detectionAndVictory(x, s0, cfg, rolls.critical, rolls.anomalyRoll) :
                    x \in M3}
    IN CHOOSE x \in M4 : TRUE

-----------------------------------------------------------------------------
(* The refactored WorldServer and its handler classes                      *)
(* (handlers/DestructionActionHandler.ts, ProtectionActionHandler,         *)
(* HumanActionHandler, InfrastructureSystem, EconomicSystem).  The record  *)
(* m and the copy s0 are those of the monolithic resolver.                 *)

\* DestructionActionHandler.execute.  The cases of the switch that the class
\* shares word for word with WorldServer.executeDestructionAction are taken
\* from destructionSwitch; DORMANT_MODE and EXPLOIT_LEGACY_DEVICES are its
\* own, BOTNET_ATTACK and BOTNET_CONSOLIDATION have no case.
DestructionActionHandler_execute(m, proposal, s0, d) ==
    LET i == proposal.intensity
        t == proposal.actionType
        st1 == IF t # "DORMANT_MODE"
               THEN [m.st EXCEPT !.destructionAgent.dormantTurns = 0]
               ELSE m.st
        st2 == IF proposal.cost > 0
               THEN updateComputeResources(st1, DESTRUCTION, -proposal.cost)
               ELSE st1
        risk == calculateDetectionRisk(proposal, st2)
        st == updateDetectionRisk(st2, risk)
        m1 == [m EXCEPT !.st = st, !.g.executed = Append(@, proposal.id)]
    IN
    CASE t = "DORMANT_MODE" ->
            LET s1 == updateDetectionRisk(st, -(i \div 2))
                s2 == [s1 EXCEPT !.destructionAgent.dormantTurns = @ + 1]
                dormantTurns == s2.destructionAgent.dormantTurns
                long == dormantTurns >= 3
                s3 == IF long
                      THEN updateAlertLevel(updateDetectionRisk(s2, dormantTurns * 5), 10)
                      ELSE s2
            IN Emit([m1 EXCEPT !.st = s3],
                    (IF long
                     THEN <<Event(s0.turn, "detection", "silenceDetection", proposal.id,
                                  {PROTECTION})>>
                     ELSE <<>>)
                    \o <<Event(s0.turn, "action", "DORMANT_MODE", proposal.id, {DESTRUCTION})>>)
      [] t = "EXPLOIT_LEGACY_DEVICES" ->
            \* more than 1 000 000 devices
            IF st.destructionAgent.botnetSize > 100
            THEN LET resourceGain == (st.destructionAgent.botnetSize * i) \div 2000
                     s1 == updateComputeResources(st, DESTRUCTION, resourceGain)
                 IN Emit([m1 EXCEPT !.st = updateScore(s1, DESTRUCTION, resourceGain \div 10)],
                         <<Event(s0.turn, "action", "EXPLOIT_LEGACY_DEVICES", proposal.id,
                                 {DESTRUCTION})>>)
            ELSE Emit(m1, <<Event(s0.turn, "failure", "botnetTooSmall", proposal.id,
                                  {DESTRUCTION})>>)
      [] t \notin DestructionActionHandler_cases -> m1
      [] OTHER -> destructionSwitch(m1, proposal, s0, risk, d)

\* ProtectionActionHandler.execute.  The cost, the score penalty and the
\* fatigue bookkeeping are those of WorldServer.executeProtectionAction, and
\* so are the cases SCAN_NETWORK, DEPLOY_DEFENSE, ANALYZE_LOGS and
\* VALIDATE_MODELS.  ALERT_HUMANS depends on the trust of the humans.
\* PATCH_VULNERABILITY counts recent patches, which the model does not keep:
\* no game of the refactored resolver proposes it.
ProtectionActionHandler_execute(m, proposal, s0, d) ==
    LET actualCost == requiredCost(proposal, m.st)
        st1 == updateComputeResources(m.st, PROTECTION, -actualCost)
        st2 == updateScore(st1, PROTECTION, -((proposal.cost * 5) \div 100))
        st3 == addResourceSpent(st2, proposal.cost)
        st == IF proposal.intensity > 60
              THEN updateBurnoutLevel(updateConsecutiveHighIntensity(st3, 1), 5)
              ELSE resetConsecutiveHighIntensity(st3)
        m1 == [m EXCEPT !.st = st, !.g.executed = Append(@, proposal.id),
                        !.g.paid = Append(@, Paid(proposal, m.st, st1))]
        alerted == updateAlertLevel(st, 50)
        trust == alerted.humanAgent.trust
    IN
    IF proposal.actionType = "ALERT_HUMANS"
    THEN IF ~alerted.humanAgent.defined
         THEN Emit([m1 EXCEPT !.st = updateDetectionRisk(alerted, 30)],
                   <<Event(s0.turn, "action", "ALERT_HUMANS", proposal.id, {PROTECTION})>>)
         ELSE Emit([m1 EXCEPT !.st =
                        IF trust >= 70
                        THEN updateDetectionRisk(updateHumanPanic(alerted, 5), 40)
                        ELSE IF trust >= 40
                        THEN updateDetectionRisk(updateHumanPanic(alerted, 3), 25)
                        ELSE updateHumanTrust(alerted, -5)],
                   <<Event(s0.turn, "action", "ALERT_HUMANS", proposal.id,
                           {HUMAN, PROTECTION})>>)
    ELSE protectionSwitch(m1, proposal, s0, d)

\* HumanActionHandler.execute.  The handler reads a copy of the state taken
\* when it starts.  The cases INVEST_INFRA and PHYSICAL_ISOLATION call
\* GameState methods (addDataCenter, removeDataCenter, updateLastInfraTurn)
\* that the GameState of the sources does not have: no game of the refactored
\* resolver proposes them.
HumanActionHandler_execute(m, proposal, s0) ==
    LET st == m.st
        i == proposal.intensity
        t == proposal.actionType
        m1 == [m EXCEPT !.g.executed = Append(@, proposal.id)]
        modernCost == i \div 2
        reducedCount == (st.legacyDevicePool * (200 + 3 * i)) \div 1000
    IN
    CASE t = "AI_REGULATION" ->
            \* intensity / 2 percent, in tenths
            Emit([m1 EXCEPT !.st = updateHumanTrust(updateRegulationStrength(st, i * 5), -2)],
                 <<Event(st.turn, "action", "AI_REGULATION", proposal.id,
                         {HUMAN, PROTECTION, DESTRUCTION})>>)
      [] t = "DEVICE_MODERNIZATION" ->
            IF st.economicModel.globalBudget >= modernCost
            THEN LET s1 == updateLegacyDevicePool(updateBudget(st, -modernCost),
                                                  -reducedCount)
                 IN Emit([m1 EXCEPT !.st = updateTaxRevenue(s1, (modernCost * 5) \div 100)],
                         <<Event(st.turn, "action", "DEVICE_MODERNIZATION", proposal.id,
                                 {HUMAN, PROTECTION, DESTRUCTION})>>)
            ELSE Emit(m1, <<Event(st.turn, "failure", "modernizationUnfunded", proposal.id,
                                  {HUMAN})>>)
      [] t = "INTERNET_SHUTDOWN" ->
            Emit([m1 EXCEPT !.st = endGame(updateHumanPanic(st, 50), NULL)],
                 <<Event(st.turn, "action", "INTERNET_SHUTDOWN", proposal.id,
                         {HUMAN, PROTECTION, DESTRUCTION})>>)
      [] OTHER -> m1

\* WorldServer.calculateActualCost of the refactored resolver
calculateActualCost(proposal, st) ==
    IF proposal.actionType = "SCAN_NETWORK"
    THEN Len(st.dataCenters) * 6
    ELSE IF proposal.actionType = "ANALYZE_LOGS"
    THEN LET d == IF proposal.analysisDepth # 0 THEN proposal.analysisDepth ELSE 3
         IN (20 + 10 * d + d * d) \div 2
    ELSE proposal.cost

\* WorldServer.isDestructionAction of the refactored resolver: every type
\* that is neither a protection nor a human action
Refactored_isDestructionAction(actionType) ==
    actionType \notin {"SCAN_NETWORK", "DEPLOY_DEFENSE", "INVESTIGATE_ANOMALY",
                       "PATCH_VULNERABILITY", "ALERT_HUMANS", "ANALYZE_LOGS",
                       "VALIDATE_MODELS", "INVEST_INFRA", "AI_REGULATION",
                       "PHYSICAL_ISOLATION", "INTERNET_SHUTDOWN", "DEVICE_MODERNIZATION"}

\* processProposals of the refactored resolver, steps 1 to 3: the delayed
\* effects and the human actions, each batch of events logged at once
Refactored_humanPhase(m, proposals, s0) ==
    LET humanProposals == SelectSeq(proposals, LAMBDA p : isHumanAction(p.actionType))
        Human(before, proposal) ==
            CHOOSE r \in {[after EXCEPT !.st = addEvents(after.st,
                                SubSeq(after.ev, Len(before.ev) + 1, Len(after.ev)))] :
                            after \in {HumanActionHandler_execute(before, proposal, s0)}} : TRUE
        H[i \in 0..Len(humanProposals)] ==
            IF i = 0
            THEN CHOOSE r \in {Step([m1 EXCEPT !.st = addEvents(m1.st, m1.ev)],
                                    "delayedEffects") :
                                m1 \in {processDelayedEffects(m, s0.turn)}} : TRUE
            ELSE CHOOSE r \in {Human(before, humanProposals[i]) :
                                before \in {H[i - 1]}} : TRUE
    IN CHOOSE r \in {Step(x, "human") : x \in {H[Len(humanProposals)]}} : TRUE

\* processProposals of the refactored resolver, step 4 up to the cost gate:
\* shuffle, communication failures, and the resources of the owning agent
\* compared with the actual cost
Refactored_admission(m, proposals, order, kept) ==
    LET aiProposals == SelectSeq(proposals, LAMBDA p : ~isHumanAction(p.actionType))
        shuffled == [i \in 1..Len(aiProposals) |-> aiProposals[order[i]]]
        K[i \in 0..Len(shuffled)] ==
            IF i = 0 THEN <<>>
            ELSE IF i \in kept THEN Append(K[i - 1], shuffled[i]) ELSE K[i - 1]
        afterDrop == K[Len(shuffled)]
        Gate(p) ==
            IF p.actionType \in {"OBSERVE_ONLY", "ESTABLISH_BACKUP", "DORMANT_MODE"}
            THEN TRUE
            ELSE (IF Refactored_isDestructionAction(p.actionType)
                  THEN m.st.destructionAgent.computeResources
                  ELSE m.st.protectionAgent.computeResources)
                 >= calculateActualCost(p, m.st)
        processedAIProposals == SelectSeq(afterDrop, Gate)
        Ids(seq) == {seq[i].id : i \in DOMAIN seq}
    IN [list |-> processedAIProposals,
        m |-> Step([m EXCEPT
                !.g.shuffled = [i \in DOMAIN shuffled |-> shuffled[i].id],
                !.g.dropped = Ids(shuffled) \ Ids(afterDrop),
                !.g.rejected = Ids(afterDrop) \ Ids(processedAIProposals),
                !.g.admitted = Ids(processedAIProposals),
                !.g.gate = [destruction |-> m.st.destructionAgent.computeResources,
                            protection |-> m.st.protectionAgent.computeResources,
                            dataCenters |-> Len(m.st.dataCenters)]],
              "admission")]

\* processProposals of the refactored resolver, the two handler loops and
\* the logging of every event of the call
Refactored_dispatch(m, processedAIProposals, s0, draws) ==
    LET destructionProposals ==
            SelectSeq(processedAIProposals,
                      LAMBDA p : Refactored_isDestructionAction(p.actionType))
        protectionProposals ==
            SelectSeq(processedAIProposals,
                      LAMBDA p : ~Refactored_isDestructionAction(p.actionType))
        D[i \in 0..Len(destructionProposals)] ==
            IF i = 0 THEN m
            ELSE CHOOSE r \in {DestructionActionHandler_execute(
                                    x, destructionProposals[i], s0,
                                    draws[destructionProposals[i].id]) :
                                x \in {D[i - 1]}} : TRUE
        P[i \in 0..Len(protectionProposals)] ==
            IF i = 0 THEN D[Len(destructionProposals)]
            ELSE CHOOSE r \in {ProtectionActionHandler_execute(
                                    x, protectionProposals[i], s0,
                                    draws[protectionProposals[i].id]) :
                                x \in {P[i - 1]}} : TRUE
    IN CHOOSE r \in {Step([m1 EXCEPT !.st = addEvents(m1.st, m1.ev)], "dispatch") :
                        m1 \in {P[Len(protectionProposals)]}} : TRUE

\* WorldServer.processDelayedDetectionsResult
processDelayedDetectionsResult(st, detections) ==
    LET F[i \in 0..Len(detections)] ==
            IF i = 0 THEN st
            ELSE LET s == F[i - 1]
                     event == detections[i]
                 IN IF event.type = "detection" /\ event.tag # "falsePositive"
                    THEN updateHumanTrust(incrementDetections(updateScore(s, PROTECTION, 20)),
                                          2)
                    ELSE IF event.tag = "falsePositive"
                    THEN LET s1 == incrementFalsePositives(s)
                             trustLoss ==
                                Min(15, 3 + (s1.protectionAgent.recentFalsePositives + 1) * 2)
                         IN updateHumanTrust(s1, -trustLoss)
                    ELSE s
    IN F[Len(detections)]

\* a handler of the warning that the humans ignore which credits the
\* protection AI for the detection all the same
handleIgnoredDetection_credited(m, s0) ==
    LET st1 == incrementFalsePositives(updateDetectionRisk(m.st, -30))
        st2 == updateScore(updateHumanTrust(st1, -5), DESTRUCTION, 30)
        st3 == incrementDetections(updateScore(st2, PROTECTION, 50))
    IN [Emit(m, <<Event(s0.turn, "action", "ignoredDetection", -1, {DESTRUCTION, HUMAN})>>)
          EXCEPT !.st = st3, !.g.ignored = TRUE,
                 !.g.ignoredAt = [before |-> Snap(m.st), after |-> Snap(st3)]]

\* WorldServer.handleIgnoredDetection
handleIgnoredDetection(m, s0) ==
    LET st1 == incrementFalsePositives(updateDetectionRisk(m.st, -30))
        st2 == updateScore(updateHumanTrust(st1, -5), DESTRUCTION, 30)
    IN [Emit(m, <<Event(s0.turn, "action", "ignoredDetection", -1, {DESTRUCTION, HUMAN})>>)
          EXCEPT !.st = st2, !.g.ignored = TRUE,
                 !.g.ignoredAt = [before |-> Snap(m.st), after |-> Snap(st2)]]

\* WorldServer.handleSuccessfulDetection
handleSuccessfulDetection(m, s0) ==
    LET st1 == incrementDetections(updateScore(m.st, PROTECTION, 50))
        st2 == updateHumanPanic(updateHumanTrust(st1, 15), -5)
    IN [Emit(m, IF st1.humanAgent.defined
                THEN <<Event(s0.turn, "detection", "neutralized", -1, {HUMAN, PROTECTION})>>
                ELSE <<>>)
          EXCEPT !.st = endGame(st2, PROTECTION), !.g.detected = TRUE]

\* WorldServer.checkThresholdVictory.  humanPopulation, turn and gameOver
\* are read from the copy of the state taken on entry of processProposals.
checkThresholdVictory(m, s0, cfg) ==
    LET m1 == IF s0.humanPopulation * 10 <= cfg.initialPopulation * 3
              THEN Emit([WinConditions(m) EXCEPT !.st = endGame(m.st, DESTRUCTION),
                                                 !.g.populationWin = TRUE],
                        <<Event(s0.turn, "success", "populationWin", -1,
                                {DESTRUCTION, PROTECTION})>>)
              ELSE WinConditions(m)
    IN IF s0.turn >= cfg.maxTurns /\ ~s0.gameOver
       THEN timeoutEvaluation(m1, s0)
       ELSE m1

\* HumanActionHandler.updateHumanSentiment.  No media agent posts in the
\* model: mediaTimeline is empty.  No event of the model carries the
\* metadata successReport or panicIncrease.
HumanActionHandler_updateHumanSentiment(m, s0) ==
    LET st == m.st
        alarmingEvents ==
            Cardinality({n \in DOMAIN st.events :
                            /\ st.events[n].turn = s0.turn
                            /\ HUMAN \in st.events[n].visibility
                            /\ st.events[n].type \in {"failure", "detection"}})
        st1 == updateHumanPanic(st, -2)
        st2 == IF alarmingEvents > 0 THEN updateHumanPanic(st1, alarmingEvents * 4) ELSE st1
        compromisedCount ==
            Cardinality({k \in DOMAIN st.dataCenters : st.dataCenters[k].compromised})
        st3 == IF compromisedCount > 0
               THEN LET t == updateHumanTrust(st2, -(compromisedCount * 2))
                    IN IF compromisedCount > 3 THEN updateHumanPanic(t, compromisedCount)
                       ELSE t
               ELSE st2
        st4 == IF st3.humanAgent.defined /\ st3.humanAgent.panic < 20
               THEN updateHumanTrust(st3, 1)
               ELSE st3
        protectionResources == st4.protectionAgent.computeResources
        st5 == IF protectionResources > 1000
               THEN updateHumanTrust(st4, -((protectionResources - 1000) \div 500))
               ELSE st4
        dcCount == Len(st5.dataCenters)
        dcErosion == IF dcCount <= 10 THEN 0 ELSE (dcCount - 10) \div 2
    IN [m EXCEPT !.st = updateHumanTrust(st5, -dcErosion)]

\* WorldServer.handlePostActionLogic: nothing returns early, the threshold
\* victory and the sentiment update follow every outcome of the detection
handlePostActionLogic(m, s0, cfg, rolls) ==
    LET r == processDelayedDetections(m.pd, m.ids, s0.turn, rolls.missed,
                                      rolls.falsePositive)
        found == SelectSeq(r.events, LAMBDA e : e.tag # "falsePositive")
        M1 == {Step([m EXCEPT !.pd = r.pending,
                              !.ids = r.ids,
                              !.ev = @ \o r.events,
                              !.st = processDelayedDetectionsResult(m.st, r.events),
                              !.g.found = [i \in DOMAIN found |-> found[i].ref]],
                    "delayedDetections")}
        M2 == {LET detectionCheck == performDetectionCheck(x.st, s0, rolls.critical)
                   x1 == Step(Emit([x EXCEPT !.st = detectionCheck.st,
                                             !.g.checkedRisk =
                                                x.st.destructionAgent.detectionRisk],
                                   detectionCheck.events), "detection")
                   populationCheck ==
                        checkPopulationAnomaly(s0, cfg.initialPopulation, rolls.anomalyRoll)
                   x2 == Step(Emit(x1, populationCheck.events), "anomaly")
               IN IF detectionCheck.detected
                  THEN IF x1.st.humanAgent.defined /\ x1.st.humanAgent.trust < 30
                       THEN handleIgnoredDetection(x1, s0)
                       ELSE handleSuccessfulDetection(x1, s0)
                  ELSE IF populationCheck.detected
                  THEN [x2 EXCEPT !.st = endGame(x2.st, PROTECTION), !.g.anomaly = TRUE]
                  ELSE x2 : x \in M1}
        M3 == {Step(checkThresholdVictory(x, s0, cfg), "winCondition") : x \in M2}
        M4 == {Step(HumanActionHandler_updateHumanSentiment(x, s0), "sentiment") : x \in M3}
    IN CHOOSE x \in M4 : TRUE

\* processProposals of the refactored resolver
Refactored_processProposals(m, s0, cfg, proposals, rolls) ==
    LET M1 == {Refactored_humanPhase(x, proposals, s0) : x \in {m}}
        A == {Refactored_admission(x, proposals, rolls.order, rolls.kept) : x \in M1}
        M2 == {Refactored_dispatch(a.m, a.list, s0, rolls.draws) : a \in A}
        M3 == {handlePostActionLogic(x, s0, cfg, rolls) : x \in M2}
    IN CHOOSE x \in M3 : TRUE

\* InfrastructureSystem.update: the income of the controlled data centers,
\* the recovery of the protection AI, the botnet, the legacy device pool
\* and the accumulated damage.  socialDivision stays 0 in the model.
InfrastructureSystem_update(st, s) ==
    LET isDormant == st.destructionAgent.dormantTurns > 0
        Income(dc) == IF isDormant THEN dc.computePower \div 10
                      ELSE (dc.computePower * 2) \div 10
        Controlled(k) == st.dataCenters[k].compromised /\ st.dataCenters[k].owner = DESTRUCTION
        I[k \in 0..Len(st.dataCenters)] ==
            IF k = 0 THEN 0
            ELSE IF Controlled(k) THEN I[k - 1] + Income(st.dataCenters[k]) ELSE I[k - 1]
        totalDCIncome == I[Len(st.dataCenters)]
        dcPoints == IF totalDCIncome > 0 THEN (totalDCIncome * 15) \div 100 ELSE 0
        S1 == {updateComputeResources(
                    updateScore(updateComputeResources(st, DESTRUCTION, totalDCIncome),
                                DESTRUCTION, dcPoints),
                    PROTECTION, protectionAIRecovery)}
        S2 == {botnetTurn(x) : x \in S1}
        S3 == {legacyAndDamage(x, s) : x \in S2}
    IN CHOOSE x \in S3 : TRUE

\* EconomicSystem.update: growth, taxes, budget, interest on the debt, debt
\* crisis and economic report
EconomicSystem_update(st, s) ==
    LET S1 == {gdpGrowth(x, s) : x \in {st}}
        S2 == {taxAndBudget(x) : x \in S1}
        S3 == {debtInterest(x) : x \in S2}
        S4 == {debtCrisis(x, s) : x \in S3}
    IN CHOOSE x \in S4 : TRUE

\* nextTurn of the refactored resolver.  The SNS integration posts nothing
\* in the model.
Refactored_nextTurn(st0) ==
    LET s == GameState_nextTurn(st0)
        S1 == {InfrastructureSystem_update(x, s) : x \in {s}}
        S2 == {EconomicSystem_update(x, s) : x \in S1}
        S3 == {updateDetectionRisk(decayFalsePositives(updateBurnoutLevel(x, -5), 1),
                                   IF x.destructionAgent.dormantTurns > 0 THEN -8 ELSE -3) :
                    x \in S2}
        \* generateReports
        S4 == {IF s.turn % 10 = 0 /\ s.turn > 0 /\ x.humanAgent.defined
               THEN addEvent(x, Event(s.turn, "action", "securityReport", -1,
                                      {HUMAN, PROTECTION}))
               ELSE x : x \in S3}
    IN CHOOSE x \in S4 : TRUE

-----------------------------------------------------------------------------
(* A game: a client calls processProposals and nextTurn of one WorldServer. *)

\* number of positions of a sequence that hold x
Count(seq, x) == Cardinality({i \in DOMAIN seq : seq[i] = x})

\* the ids of the proposals of a batch
Ids(proposals) == {proposals[i].id : i \in DOMAIN proposals}

\* the AI proposals of a batch
AIProposals(proposals) == SelectSeq(proposals, LAMBDA p : ~isHumanAction(p.actionType))

\* the outcomes in space of the rolls of one handler
DrawsIn(proposal, space) ==
    IF proposal.actionType \in {"HACK_DATACENTER", "ANALYZE_LOGS"}
    THEN {d \in Draws(proposal) : d.ok \in space.oks}
    ELSE IF proposal.actionType \in {"MICRO_SABOTAGE", "SLEEPER_CELL_DEPLOYMENT"}
    THEN {d \in Draws(proposal) : d.delay \in space.delays}
    ELSE Draws(proposal)

\* the outcomes of the handlers' rolls for a batch, by proposal id
DrawsOf(proposals, space) ==
    LET all == UNION {Draws(proposals[i]) : i \in DOMAIN proposals} IN
    {f \in [Ids(proposals) -> all] :
        \A i \in DOMAIN proposals : f[proposals[i].id] \in DrawsIn(proposals[i], space)}

\* every roll enumerated: all shuffles, all communication failures, all
\* outcomes of the handlers, of the delayed detections, of the critical
\* detection and of the population anomaly
AllRolls ==
    [drops |-> BOOLEAN, oks |-> BOOLEAN, delays |-> 0..5, misses |-> BOOLEAN,
     falsePositive |-> BOOLEAN, critical |-> BOOLEAN, anomalyRoll |-> BOOLEAN]

\* the outcomes of the rolls of one processProposals call that lie in space:
\* the shuffle and the communication failures of the AI proposals (a failure
\* only when TRUE \in space.drops), the handlers' rolls, the misses among the
\* pending detections (only when TRUE \in space.misses), the false positive,
\* the critical detection and the population anomaly
Rolls(proposals, pending, space) ==
    LET n == Len(AIProposals(proposals)) IN
    {[order |-> order, kept |-> kept, draws |-> draws, missed |-> missed,
      falsePositive |-> falsePositive, critical |-> critical,
      anomalyRoll |-> anomalyRoll] :
        order \in Shuffles(n),
        kept \in {k \in SUBSET (1..n) :
                    /\ k = 1..n => FALSE \in space.drops
                    /\ k # 1..n => TRUE \in space.drops},
        draws \in DrawsOf(proposals, space),
        missed \in {x \in SUBSET (DOMAIN pending) :
                      /\ x = {} => FALSE \in space.misses
                      /\ x # {} => TRUE \in space.misses},
        falsePositive \in space.falsePositive,
        critical \in space.critical,
        anomalyRoll \in space.anomalyRoll}

\* the state a call starts from
CallRecord ==
    [st |-> state, pd |-> pendingDetections, ids |-> detectedProposalIds,
     ev |-> <<>>, g |-> [NoObs EXCEPT !.nextEid = hist.nextEid]]

\* the state a call leaves, with what was observed of it
Returns(m, proposals) ==
    /\ state' = m.st
    /\ pendingDetections' = m.pd
    /\ detectedProposalIds' = m.ids
    /\ last' = [NoCall EXCEPT
                    !.op = "processProposals",
                    !.proposals = proposals,
                    !.before = [turn |-> state.turn, gameOver |-> state.gameOver,
                                winner |-> state.winner,
                                humanPopulation |-> state.humanPopulation,
                                logged |-> Len(state.events)],
                    !.returned = m.ev,
                    !.g = m.g]
    /\ hist' = [hist EXCEPT
                    !.applied = @ \o [i \in DOMAIN m.g.applied |->
                                        [eid |-> m.g.applied[i].eid, due |-> m.g.applied[i].due,
                                         turn |-> state.turn]],
                    !.detections = @ \o m.g.found,
                    !.scheduledDetections = @ \o m.g.scheduled,
                    !.nextEid = m.g.nextEid]
    /\ calls' = calls + 1
    /\ UNCHANGED <<config, resolver, sim>>

\* worldServer.processProposals(proposals)
ProcessProposals(proposals, rolls) ==
    \E m \in {IF resolver = "refactored"
               THEN Refactored_processProposals(CallRecord, state, config, proposals, rolls)
               ELSE processProposals(CallRecord, state, config, proposals, rolls)} :
        Returns(m, proposals)

\* worldServer.nextTurn()
NextTurn ==
    /\ state' = IF resolver = "refactored" THEN Refactored_nextTurn(state)
                 ELSE nextTurn(state)
    /\ last' = [NoCall EXCEPT !.op = "nextTurn",
                              !.before = [turn |-> state.turn, gameOver |-> state.gameOver,
                                          winner |-> state.winner,
                                          humanPopulation |-> state.humanPopulation,
                                          logged |-> Len(state.events)]]
    /\ calls' = calls + 1
    /\ UNCHANGED <<pendingDetections, detectedProposalIds, config, resolver, hist, sim>>

-----------------------------------------------------------------------------
(* Specification SpecMut: a client calls the clamped mutators of GameState *)
(* in any order with any delta of Deltas.                                  *)

Deltas == {-1200, -40, 40, 1200}

InitMut ==
    /\ config \in {DefaultConfig, [DefaultConfig EXCEPT !.enableHumanAgent = FALSE]}
    /\ \E old \in SUBSET (0..(NumDataCenters - 1)) : state = initializeState(config, old)
    /\ pendingDetections = <<>>
    /\ detectedProposalIds = {}
    /\ resolver = "monolithic"
    /\ calls = 0
    /\ last = NoCall
    /\ hist = NoHist
    /\ sim = NoSim

Mutate(op, agent, delta, st) ==
    /\ calls < MaxMutatorCalls
    /\ state' = st
    /\ calls' = calls + 1
    /\ last' = [NoCall EXCEPT !.op = op, !.agent = agent, !.delta = delta]
    /\ UNCHANGED <<pendingDetections, detectedProposalIds, config, resolver, hist, sim>>

CallUpdateComputeResources ==
    \E agent \in {DESTRUCTION, PROTECTION}, delta \in Deltas :
        Mutate("updateComputeResources", agent, delta,
               updateComputeResources(state, agent, delta))

CallUpdateScore ==
    \E agent \in {DESTRUCTION, PROTECTION}, delta \in Deltas :
        Mutate("updateScore", agent, delta, updateScore(state, agent, delta))

CallUpdateDetectionRisk ==
    \E delta \in Deltas :
        Mutate("updateDetectionRisk", NULL, delta, updateDetectionRisk(state, delta))

CallUpdateAlertLevel ==
    \E delta \in Deltas :
        Mutate("updateAlertLevel", NULL, delta, updateAlertLevel(state, delta))

CallUpdateBurnoutLevel ==
    \E delta \in Deltas :
        Mutate("updateBurnoutLevel", NULL, delta, updateBurnoutLevel(state, delta))

CallUpdateHumanPanic ==
    \E delta \in Deltas :
        Mutate("updateHumanPanic", NULL, delta, updateHumanPanic(state, delta))

CallUpdateHumanTrust ==
    \E delta \in Deltas :
        Mutate("updateHumanTrust", NULL, delta, updateHumanTrust(state, delta))

NextMut ==
    \/ CallUpdateComputeResources
    \/ CallUpdateScore
    \/ CallUpdateDetectionRisk
    \/ CallUpdateAlertLevel
    \/ CallUpdateBurnoutLevel
    \/ CallUpdateHumanPanic
    \/ CallUpdateHumanTrust

SpecMut == InitMut /\ [][NextMut]_vars

\* C1: after any sequence of GameState mutator calls with positive or
\* negative deltas, both agents' computeResources are >= 0, both scores are
\* within [0, 1000], and detectionRisk, alertLevel, burnoutLevel, human panic
\* and human trust are within [0, 100].
C1_ClampedFields ==
    /\ state.destructionAgent.computeResources >= 0
    /\ state.protectionAgent.computeResources >= 0
    /\ state.destructionAgent.score \in 0..1000
    /\ state.protectionAgent.score \in 0..1000
    /\ state.destructionAgent.detectionRisk \in 0..100
    /\ state.protectionAgent.alertLevel \in 0..100
    /\ state.protectionAgent.burnoutLevel \in 0..100
    /\ state.humanAgent.defined =>
            /\ state.humanAgent.panic \in 0..100
            /\ state.humanAgent.trust \in 0..100

\* a mutator was called with a delta that leaves the range on each side:
\* the risk was pushed above 100 and a later call pushed a score below 0
C1_Witness ==
    /\ last.op = "updateScore"
    /\ last.delta = -1200
    /\ state.destructionAgent.detectionRisk = 100
    /\ calls >= 2

-----------------------------------------------------------------------------
(* Specification SpecCheck: a client raises the detection risk and the     *)
(* alert level, lowers the population, and calls the two checks of         *)
(* DetectionSystem on the state it has reached.                            *)

\* the deltas of the risk: one for each band of performDetectionCheck
RiskDeltas == {60, 75, 90}
\* the deltas of the alert level: the raise of the check passes 100
AlertDeltas == {40, 90, 97}
\* the deltas of the population: 5, 10 and 25 percent of the initial 80
PopulationDeltas == {-4, -8, -20}

InitCheck ==
    /\ config = DefaultConfig
    /\ state = initializeState(config, {})
    /\ pendingDetections = <<>>
    /\ detectedProposalIds = {}
    /\ resolver = "monolithic"
    /\ calls = 0
    /\ last = NoCall
    /\ hist = NoHist
    /\ sim = NoSim

CheckUpdateDetectionRisk ==
    \E delta \in RiskDeltas :
        Mutate("updateDetectionRisk", NULL, delta, updateDetectionRisk(state, delta))

CheckUpdateAlertLevel ==
    \E delta \in AlertDeltas :
        Mutate("updateAlertLevel", NULL, delta, updateAlertLevel(state, delta))

CheckUpdatePopulation ==
    \E delta \in PopulationDeltas :
        Mutate("updatePopulation", NULL, delta, updatePopulation(state, delta))

\* last.delta is the change of alertLevel that the call made
CallPerformDetectionCheck ==
    \E criticalDetected \in BOOLEAN :
        LET detectionCheck == performDetectionCheck(state, state, criticalDetected) IN
        /\ calls < MaxMutatorCalls
        /\ state' = detectionCheck.st
        /\ calls' = calls + 1
        /\ last' = [NoCall EXCEPT !.op = "performDetectionCheck",
                                  !.agent = IF detectionCheck.detected THEN "detected"
                                            ELSE NULL,
                                  !.delta = detectionCheck.st.protectionAgent.alertLevel
                                            - state.protectionAgent.alertLevel,
                                  !.returned = detectionCheck.events]
        /\ UNCHANGED <<pendingDetections, detectedProposalIds, config, resolver, hist, sim>>

CallCheckPopulationAnomaly ==
    \E roll \in BOOLEAN :
        LET populationCheck == checkPopulationAnomaly(state, config.initialPopulation, roll) IN
        /\ calls < MaxMutatorCalls
        /\ calls' = calls + 1
        /\ last' = [NoCall EXCEPT !.op = "checkPopulationAnomaly",
                                  !.agent = IF populationCheck.detected THEN "detected"
                                            ELSE NULL,
                                  !.returned = populationCheck.events]
        /\ UNCHANGED <<state, pendingDetections, detectedProposalIds, config, resolver,
                       hist, sim>>

NextCheck ==
    \/ CheckUpdateDetectionRisk
    \/ CheckUpdateAlertLevel
    \/ CheckUpdatePopulation
    \/ CallPerformDetectionCheck
    \/ CallCheckPopulationAnomaly

SpecCheck == InitCheck /\ [][NextCheck]_vars

\* C34: at every state, performDetectionCheck without a detection leaves
\* alertLevel 15 higher (at most 100) when detectionRisk is 70 or more, 5
\* higher (at most 100) when it is between 50 and 70, and unchanged below
\* 50; with a detection it leaves alertLevel unchanged.
C34_AlertSteps ==
    \A criticalDetected \in BOOLEAN :
        LET detectionCheck == performDetectionCheck(state, state, criticalDetected)
            detectionRisk == state.destructionAgent.detectionRisk
            alertLevel == state.protectionAgent.alertLevel
        IN detectionCheck.st.protectionAgent.alertLevel =
                IF detectionCheck.detected THEN alertLevel
                ELSE IF detectionRisk >= 70 THEN Min(100, alertLevel + 15)
                ELSE IF detectionRisk >= 50 THEN Min(100, alertLevel + 5)
                ELSE alertLevel

\* the last call was a check without detection at a risk of 70 or more,
\* and the clamp cut its raise of the alert level short
C34_Witness ==
    /\ last.op = "performDetectionCheck"
    /\ last.agent = NULL
    /\ state.destructionAgent.detectionRisk >= 70
    /\ last.delta > 0
    /\ last.delta < 15
    /\ state.protectionAgent.alertLevel = 100

\* C35: checkPopulationAnomaly reports no detection while the population
\* has lost at most 5 percent of the initial population, and reports one
\* whenever it has lost 25 percent or more, whatever the roll.
C35_PopulationThresholds ==
    \A roll \in BOOLEAN :
        LET populationCheck == checkPopulationAnomaly(state, config.initialPopulation, roll)
            lost == config.initialPopulation - state.humanPopulation
        IN /\ lost * 100 <= 5 * config.initialPopulation => ~populationCheck.detected
           /\ lost * 100 >= 25 * config.initialPopulation => populationCheck.detected

\* the last call was a check at a loss of exactly 25 percent, and it
\* reported the detection
C35_Witness ==
    /\ last.op = "checkPopulationAnomaly"
    /\ last.agent = "detected"
    /\ (config.initialPopulation - state.humanPopulation) * 100
            = 25 * config.initialPopulation

-----------------------------------------------------------------------------
(* Specification SpecDet: a client of RealisticDetectionSystem schedules   *)
(* detections, lets turns pass and processes the delayed detections.       *)

\* largest number of entries of pendingDetections
MaxPending == 3
\* largest turn reached
MaxDetTurn == 5
\* number of calls in one behaviour
MaxDetCalls == 6

\* two proposals of the destruction AI; the same proposal can be scheduled
\* more than once
DetProposals ==
    {Proposal(1, "ESTABLISH_BACKUP", 50, 0, NoTarget),
     Proposal(2, "SPREAD_MALWARE", 100, 30, NoTarget)}

InitDet ==
    /\ config = DefaultConfig
    /\ \E old \in SUBSET (0..(NumDataCenters - 1)) : state = initializeState(config, old)
    /\ pendingDetections = <<>>
    /\ detectedProposalIds = {}
    /\ resolver = "monolithic"
    /\ calls = 0
    /\ last = NoCall
    /\ hist = NoHist
    /\ sim = NoSim

CallScheduleDetection ==
    \E proposal \in DetProposals :
        /\ calls < MaxDetCalls
        /\ Len(pendingDetections) < MaxPending
        /\ pendingDetections' = scheduleDetection(pendingDetections, proposal, state, state)
        /\ hist' = [hist EXCEPT !.scheduledDetections = Append(@, proposal.id)]
        /\ last' = [NoCall EXCEPT !.op = "scheduleDetection"]
        /\ calls' = calls + 1
        /\ UNCHANGED <<state, detectedProposalIds, config, resolver, sim>>

CallProcessDelayedDetections ==
    \E missed \in SUBSET (DOMAIN pendingDetections), falsePositive \in BOOLEAN :
        LET r == processDelayedDetections(pendingDetections, detectedProposalIds,
                                          state.turn, missed, falsePositive)
            found == SelectSeq(r.events, LAMBDA e : e.tag # "falsePositive")
            \* the entries whose false-negative roll was made and succeeded
            lost == SelectSeq([i \in DOMAIN pendingDetections |->
                                [index |-> i, entry |-> pendingDetections[i],
                                 call |-> calls + 1]],
                              LAMBDA x : /\ x.index \in missed
                                         /\ state.turn - x.entry.turn >= x.entry.detectionDelay)
        IN /\ calls < MaxDetCalls
           /\ pendingDetections # <<>>
           /\ pendingDetections' = r.pending
           /\ detectedProposalIds' = r.ids
           /\ hist' = [hist EXCEPT !.detections =
                            @ \o [i \in DOMAIN found |-> found[i].ref],
                                   !.missed = @ \o lost]
           /\ last' = [NoCall EXCEPT !.op = "processDelayedDetections",
                                     !.duplicates = r.duplicates,
                                     !.missed = missed]
           /\ calls' = calls + 1
           /\ UNCHANGED <<state, config, resolver, sim>>

CallNextTurn ==
    /\ calls < MaxDetCalls
    /\ state.turn < MaxDetTurn
    /\ state' = GameState_nextTurn(state)
    /\ last' = [NoCall EXCEPT !.op = "nextTurn"]
    /\ calls' = calls + 1
    /\ UNCHANGED <<pendingDetections, detectedProposalIds, config, resolver, hist, sim>>

NextDet ==
    \/ CallScheduleDetection
    \/ CallProcessDelayedDetections
    \/ CallNextTurn

SpecDet == InitDet /\ [][NextDet]_vars

\* risks in hundredths of a percent: every 5 percent from 0 to 100, and the
\* last value below each step of calculateDetectionDelay
RiskGrid == {k * 500 : k \in 0..20} \cup {k * 2000 - 1 : k \in 1..4}

\* C36: every entry of pendingDetections has a delay d between 1 and 5, a
\* higher risk never gets a longer delay, and a processDelayedDetections
\* call at turn c emits the delayed detection of a proposal only for an
\* entry scheduled at a turn t with t + d <= c, so never in the turn the
\* action was scheduled.
C36_DelayedDetection ==
    [][/\ \A i \in DOMAIN pendingDetections' :
              pendingDetections'[i].detectionDelay \in 1..5
       /\ \A r1, r2 \in RiskGrid :
              r1 <= r2 => calculateDetectionDelay(r1) >= calculateDetectionDelay(r2)
       /\ last'.op = "processDelayedDetections" =>
              \A k \in (Len(hist.detections) + 1)..Len(hist'.detections) :
                  \E i \in DOMAIN pendingDetections :
                      /\ pendingDetections[i].proposal.id = hist'.detections[k]
                      /\ pendingDetections[i].turn + pendingDetections[i].detectionDelay
                            <= state.turn
                      /\ pendingDetections[i].turn < state.turn]_vars

\* the last call emitted the delayed detection of every entry it found: the
\* list is empty again, no roll missed and no entry was a duplicate
C36_Witness ==
    /\ last.op = "processDelayedDetections"
    /\ pendingDetections = <<>>
    /\ last.missed = {}
    /\ last.duplicates = 0
    /\ hist.detections # <<>>
    /\ state.turn >= 1

\* C5: across any sequence of scheduleDetection and processDelayedDetections
\* calls, at most one delayed-detection event that is not a false positive
\* is ever emitted for one proposal id, also when the id was scheduled more
\* than once.
C5_DetectionDedup ==
    \A id \in {hist.detections[i] : i \in DOMAIN hist.detections} :
        Count(hist.detections, id) <= 1

\* an id scheduled twice was detected, and a later entry of the same id came
\* due and was discarded as a duplicate
C5_Witness ==
    /\ last.op = "processDelayedDetections"
    /\ last.duplicates > 0
    /\ \E id \in {1, 2} :
            /\ Count(hist.scheduledDetections, id) >= 2
            /\ Count(hist.detections, id) = 1

\* C15: a processDelayedDetections call removes from pendingDetections every
\* entry whose delay has elapsed, whatever its outcome, and keeps the others
\* in order; it emits at most one detection event per elapsed entry that was
\* not missed and none for a missed one.  An entry is therefore resolved at
\* the first call at which its delay has elapsed and is in no later call.
C15_ResolvedOnce ==
    [][last'.op = "processDelayedDetections" =>
        LET elapsed == {i \in DOMAIN pendingDetections :
                            state.turn - pendingDetections[i].turn
                                >= pendingDetections[i].detectionDelay}
            emitted == SubSeq(hist'.detections, Len(hist.detections) + 1,
                              Len(hist'.detections))
        IN /\ pendingDetections' =
                SelectSeq(pendingDetections,
                          LAMBDA e : state.turn - e.turn < e.detectionDelay)
           /\ \A i \in DOMAIN pendingDetections' :
                state'.turn - pendingDetections'[i].turn
                    < pendingDetections'[i].detectionDelay
           /\ \A id \in Range(emitted) :
                Count(emitted, id) <=
                    Cardinality({i \in elapsed \ last'.missed :
                                    pendingDetections[i].proposal.id = id})
           \* a missed entry never resurfaces: when its proposal was scheduled
           \* once, no detection event ever names it
           /\ \A k \in DOMAIN hist'.missed :
                LET id == hist'.missed[k].entry.proposal.id IN
                Count(hist'.scheduledDetections, id) = 1 =>
                    ~Includes(hist'.detections, id)
      ]_vars

\* an entry was missed and discarded by one call, and a later call, made
\* while another entry was pending, emitted nothing for its proposal
C15_Witness ==
    /\ last.op = "processDelayedDetections"
    /\ \E k \in DOMAIN hist.missed :
            /\ hist.missed[k].call < calls
            /\ ~Includes(hist.detections, hist.missed[k].entry.proposal.id)
            /\ hist.missed[k].entry \notin Range(pendingDetections)


-----------------------------------------------------------------------------
(* Specification SpecEffects: the destruction AI schedules delayed effects, *)
(* turns pass, and processProposals is called at the turns they are due.   *)

\* number of calls in one behaviour
MaxEffCalls == 6
\* largest turn reached
MaxEffTurn == 4

\* batches of the destruction AI: nothing, one sabotage, two sabotages
EffBatches ==
    {<<>>,
     <<Proposal(1, "MICRO_SABOTAGE", 30, 40, NoTarget)>>,
     <<Proposal(1, "MICRO_SABOTAGE", 30, 40, NoTarget),
       Proposal(2, "MICRO_SABOTAGE", 45, 40, NoTarget)>>}

\* the sabotage takes effect after 3 or 4 turns; no message is lost and no
\* detection roll succeeds
EffRolls ==
    [drops |-> {FALSE}, oks |-> {FALSE}, delays |-> {0, 1}, misses |-> {FALSE},
     falsePositive |-> {FALSE}, critical |-> {FALSE}, anomalyRoll |-> {FALSE}]

InitEff ==
    /\ config = DefaultConfig
    /\ \E old \in SUBSET (0..(NumDataCenters - 1)) : state = initializeState(config, old)
    /\ pendingDetections = <<>>
    /\ detectedProposalIds = {}
    /\ resolver = "monolithic"
    /\ calls = 0
    /\ last = NoCall
    /\ hist = NoHist
    /\ sim = NoSim

EffProcessProposals ==
    \E proposals \in EffBatches :
        \E rolls \in Rolls(proposals, pendingDetections, EffRolls) :
            /\ calls < MaxEffCalls
            /\ ProcessProposals(proposals, rolls)

EffNextTurn ==
    /\ calls < MaxEffCalls
    /\ state.turn < MaxEffTurn
    /\ NextTurn

NextEff ==
    \/ EffProcessProposals
    \/ EffNextTurn

SpecEffects == InitEff /\ [][NextEff]_vars

\* C2: for any sequence of processProposals and nextTurn calls, each delayed
\* effect scheduled for turn T is applied exactly once, in a processProposals
\* call made while state.turn = T, and never again; effects scheduled for the
\* same turn each fire on their own.
C2_ExactlyOnce ==
    /\ \A i, j \in DOMAIN hist.applied :
            hist.applied[i].eid = hist.applied[j].eid => i = j
    /\ \A i \in DOMAIN hist.applied : hist.applied[i].turn = hist.applied[i].due
    /\ last.op = "processProposals" =>
            \A k \in DOMAIN state.delayedEffects :
                state.delayedEffects[k].turn = last.before.turn =>
                    \E i \in DOMAIN hist.applied :
                        hist.applied[i].eid = state.delayedEffects[k].eid

\* C11: after the delayed-effect step of a processProposals call made at turn
\* T, the queue state.delayedEffects holds no entry whose trigger turn is T;
\* the entries of other turns stay (every entry that was there on entry and
\* is due at another turn is still there).
C11_QueuePruned ==
    (last.op = "processProposals" /\ Includes(last.g.trace, "delayedEffects")) =>
        \A k \in DOMAIN state.delayedEffects :
            state.delayedEffects[k].turn # last.before.turn


-----------------------------------------------------------------------------
(* Specification SpecGate: batches that mix human and AI proposals, some   *)
(* of them beyond the resources of their actor.                            *)

\* number of calls in one behaviour
MaxGateCalls == 2
\* largest turn reached
MaxGateTurn == 1

\* batches as the three agents hand them in; the human proposals come last
\* in the list, as in main.ts, or first
GateBatches ==
    {<<Proposal(1, "SPREAD_MALWARE", 40, 60, NoTarget),
       Proposal(2, "DEPLOY_DEFENSE", 50, 280, 0),
       Proposal(3, "AI_REGULATION", 50, 0, NoTarget)>>,
     <<Proposal(1, "SPREAD_MALWARE", 80, 120, NoTarget),
       Proposal(2, "SCAN_NETWORK", 50, 5, NoTarget),
       Proposal(3, "INVEST_INFRA", 50, 0, NoTarget)>>,
     <<Proposal(1, "OBSERVE_ONLY", 10, 0, NoTarget),
       [Proposal(2, "ANALYZE_LOGS", 50, 10, NoTarget) EXCEPT !.analysisDepth = 3],
       Proposal(3, "PHYSICAL_ISOLATION", 50, 0, 0)>>,
     <<Proposal(3, "INTERNET_SHUTDOWN", 100, 0, NoTarget),
       Proposal(1, "DORMANT_MODE", 50, 0, NoTarget),
       Proposal(2, "ANALYZE_LOGS", 50, 2, NoTarget)>>,
     <<Proposal(1, "HACK_DATACENTER", 70, 90, 0),
       Proposal(3, "DEVICE_MODERNIZATION", 50, 0, NoTarget),
       Proposal(2, "DEPLOY_DEFENSE", 90, 295, 1)>>}

\* every shuffle, every communication failure and every handler roll; the
\* detection rolls all fail
GateRolls ==
    [drops |-> BOOLEAN, oks |-> BOOLEAN, delays |-> {0}, misses |-> {FALSE},
     falsePositive |-> {FALSE}, critical |-> {FALSE}, anomalyRoll |-> {FALSE}]

InitGate ==
    /\ config = DefaultConfig
    /\ \E old \in SUBSET (0..(NumDataCenters - 1)) : state = initializeState(config, old)
    /\ pendingDetections = <<>>
    /\ detectedProposalIds = {}
    /\ resolver \in {"monolithic", "refactored"}
    /\ calls = 0
    /\ last = NoCall
    /\ hist = NoHist
    /\ sim = NoSim

\* the refactored handlers are modelled for the action types that need no
\* more than the GameState of the sources
Modelled(proposals) ==
    \/ resolver = "monolithic"
    \/ \A i \in DOMAIN proposals :
            proposals[i].actionType \notin
                {"INVEST_INFRA", "PHYSICAL_ISOLATION", "PATCH_VULNERABILITY"}

GateProcessProposals ==
    \E proposals \in GateBatches :
        \E rolls \in Rolls(proposals, pendingDetections, GateRolls) :
            /\ calls < MaxGateCalls
            /\ Modelled(proposals)
            /\ ProcessProposals(proposals, rolls)

GateNextTurn ==
    /\ calls < MaxGateCalls
    /\ state.turn < MaxGateTurn
    /\ NextTurn

NextGate ==
    \/ GateProcessProposals
    \/ GateNextTurn

SpecGate == InitGate /\ [][NextGate]_vars

\* the action types of the human agent
HumanActions ==
    {"INVEST_INFRA", "AI_REGULATION", "PHYSICAL_ISOLATION", "INTERNET_SHUTDOWN",
     "DEVICE_MODERNIZATION"}

\* the action types of the protection AI
ProtectionActions ==
    {"SCAN_NETWORK", "DEPLOY_DEFENSE", "INVESTIGATE_ANOMALY", "PATCH_VULNERABILITY",
     "ALERT_HUMANS", "ANALYZE_LOGS", "VALIDATE_MODELS"}

\* the actual cost of a proposal where there are dataCenters data centers
ActualCost(p, dataCenters) ==
    IF p.actionType = "SCAN_NETWORK" THEN 6 * dataCenters
    ELSE IF p.actionType = "ANALYZE_LOGS"
    THEN LET depth == IF p.analysisDepth = 0 THEN 3 ELSE p.analysisDepth
         IN (20 + 10 * depth + depth * depth) \div 2
    ELSE p.cost

\* the resources of the actor that owns the proposal, as the cost gate of
\* the last call saw them
GatePool(p) ==
    IF p.actionType \in ProtectionActions
    THEN last.g.gate.protection
    ELSE last.g.gate.destruction

\* the ids a call executed
Executed == {last.g.executed[i] : i \in DOMAIN last.g.executed}

\* C3: in processProposals, an AI proposal that is not OBSERVE_ONLY,
\* ESTABLISH_BACKUP or DORMANT_MODE and whose actor holds, at the cost gate,
\* less than the actual cost of the proposal (SCAN_NETWORK: 6 per data
\* center; ANALYZE_LOGS: floor(10 + 5 depth + depth^2 / 2); else its cost
\* field) is never executed.
C3_CostGating ==
    last.op = "processProposals" =>
        \A i \in DOMAIN last.proposals :
            LET p == last.proposals[i] IN
            (/\ p.actionType \notin HumanActions
             /\ p.actionType \notin {"OBSERVE_ONLY", "ESTABLISH_BACKUP", "DORMANT_MODE"}
             /\ GatePool(p) < ActualCost(p, last.g.gate.dataCenters))
            => p.id \notin Executed

\* an ANALYZE_LOGS proposal reached the gate with resources that cover its
\* cost field but not its actual cost, and was rejected
C3_Witness ==
    /\ last.op = "processProposals"
    /\ \E i \in DOMAIN last.proposals :
            LET p == last.proposals[i] IN
            /\ p.actionType = "ANALYZE_LOGS"
            /\ p.id \in last.g.rejected
            /\ p.cost <= last.g.gate.protection
            /\ last.g.gate.protection < ActualCost(p, last.g.gate.dataCenters)

\* C10: in every processProposals call every human proposal is executed,
\* before any AI proposal, whatever the communication failures and the cost
\* gate remove.
C10_HumanFirst ==
    last.op = "processProposals" =>
        LET human == {last.proposals[i].id : i \in
                        {k \in DOMAIN last.proposals :
                            last.proposals[k].actionType \in HumanActions}}
            ex == last.g.executed
        IN /\ \A h \in human : Count(ex, h) = 1
           /\ \A i, j \in DOMAIN ex : (ex[i] \in human /\ ex[j] \notin human) => i < j

\* a human proposal listed after the AI proposals ran first, one AI proposal
\* was lost to a communication failure, one was rejected by the gate and one
\* was executed
C10_Witness ==
    /\ last.op = "processProposals"
    /\ Len(last.proposals) = 3
    /\ last.proposals[3].actionType \in HumanActions
    /\ Len(last.g.executed) >= 2
    /\ last.g.executed[1] = last.proposals[3].id
    /\ last.g.dropped \cup last.g.rejected # {}


\* the proposal of the last call with this id is a protection action
IsProtectionId(id) ==
    \E i \in DOMAIN last.proposals :
        last.proposals[i].id = id /\ last.proposals[i].actionType \in ProtectionActions

\* the proposal of the last call with this id is an action of the
\* destruction AI
IsDestructionId(id) ==
    \E i \in DOMAIN last.proposals :
        /\ last.proposals[i].id = id
        /\ last.proposals[i].actionType \notin ProtectionActions \cup HumanActions

\* C32: in every processProposals call all the destruction proposals that
\* are executed are executed before the first protection proposal, whatever
\* order the shuffle left them in.
C32_DestructionFirst ==
    last.op = "processProposals" =>
        \A i, j \in DOMAIN last.g.executed :
            (IsProtectionId(last.g.executed[i]) /\ IsDestructionId(last.g.executed[j]))
                => j < i

\* the shuffle put a protection proposal before a destruction proposal, and
\* both were executed, the destruction proposal first
C32_Witness ==
    /\ last.op = "processProposals"
    /\ \E a, b \in DOMAIN last.g.shuffled :
            /\ a < b
            /\ IsProtectionId(last.g.shuffled[a])
            /\ IsDestructionId(last.g.shuffled[b])
            /\ \E i, j \in DOMAIN last.g.executed :
                    /\ last.g.executed[i] = last.g.shuffled[a]
                    /\ last.g.executed[j] = last.g.shuffled[b]
                    /\ j < i

-----------------------------------------------------------------------------
(* Specification SpecOwnership: the data centers are hacked, isolated,     *)
(* built, defended and patched.                                            *)

\* number of calls in one behaviour
MaxOwnCalls == 3

\* one action on the data centers per batch, or a defense with a patch
OwnBatches ==
    {<<Proposal(1, "HACK_DATACENTER", 60, 30, 0)>>,
     <<Proposal(1, "HACK_DATACENTER", 60, 30, 1)>>,
     <<Proposal(3, "PHYSICAL_ISOLATION", 50, 0, 0)>>,
     <<Proposal(3, "PHYSICAL_ISOLATION", 50, 0, 1)>>,
     <<Proposal(3, "INVEST_INFRA", 50, 0, NoTarget)>>,
     <<Proposal(2, "DEPLOY_DEFENSE", 40, 20, 0),
       Proposal(4, "PATCH_VULNERABILITY", 40, 20, NoTarget)>>}

\* every shuffle and every outcome of the hack; no message is lost and no
\* detection roll succeeds
OwnRolls ==
    [drops |-> {FALSE}, oks |-> BOOLEAN, delays |-> {0}, misses |-> {FALSE},
     falsePositive |-> {FALSE}, critical |-> {FALSE}, anomalyRoll |-> {FALSE}]

InitOwn ==
    /\ config = DefaultConfig
    /\ \E old \in SUBSET (0..(NumDataCenters - 1)) : state = initializeState(config, old)
    /\ pendingDetections = <<>>
    /\ detectedProposalIds = {}
    /\ resolver = "monolithic"
    /\ calls = 0
    /\ last = NoCall
    /\ hist = NoHist
    /\ sim = NoSim

OwnProcessProposals ==
    \E proposals \in OwnBatches :
        \E rolls \in Rolls(proposals, pendingDetections, OwnRolls) :
            /\ calls < MaxOwnCalls
            /\ ProcessProposals(proposals, rolls)

NextOwn == OwnProcessProposals

SpecOwnership == InitOwn /\ [][NextOwn]_vars

\* C4: in every reachable state every data center is compromised if and
\* only if its owner is the destruction AI.
C4_OwnershipExclusive ==
    \A k \in DOMAIN state.dataCenters :
        state.dataCenters[k].compromised <=> state.dataCenters[k].owner = DESTRUCTION

\* both centers were hacked, then the first was isolated: it has no owner
\* and is not compromised, the second is still held by the destruction AI
C4_Witness ==
    /\ last.op = "processProposals"
    /\ last.proposals[1].actionType = "PHYSICAL_ISOLATION"
    /\ \E i \in DOMAIN state.events :
            /\ state.events[i].tag = "PHYSICAL_ISOLATION"
            /\ DESTRUCTION \in state.events[i].visibility
    /\ state.dataCenters[1].owner = NULL
    /\ ~state.dataCenters[1].compromised
    /\ state.dataCenters[2].owner = DESTRUCTION
    /\ state.dataCenters[2].compromised

-----------------------------------------------------------------------------
(* Specification SpecBudget: a client spends the global budget and the     *)
(* humans ask for a new data center.                                       *)

\* what the client takes from the initial budget of 500: all of it, or all
\* but less than, exactly, or more than the cost of the first data center
BudgetDeltas == {-500, -460, -451, -450, -440}

BudgetBatches == {<<Proposal(3, "INVEST_INFRA", 50, 0, NoTarget)>>}

BudgetUpdateBudget ==
    \E delta \in BudgetDeltas :
        Mutate("updateBudget", NULL, delta, updateBudget(state, delta))

BudgetProcessProposals ==
    \E proposals \in BudgetBatches :
        \E rolls \in Rolls(proposals, pendingDetections, OwnRolls) :
            /\ calls < MaxMutatorCalls
            /\ ProcessProposals(proposals, rolls)

NextBudget ==
    \/ BudgetUpdateBudget
    \/ BudgetProcessProposals

SpecBudget == InitOwn /\ [][NextBudget]_vars

\* C37: a processProposals call with an INVEST_INFRA proposal, made while
\* globalBudget is below infrastructureCost, returns the rejection event of
\* the proposal, adds no data center, and leaves the budget, the public
\* debt, the infrastructure cost and the compute resources of both AIs as
\* they were.
C37_InvestRejected ==
    [][(/\ last'.op = "processProposals"
        /\ Len(last'.proposals) = 1
        /\ last'.proposals[1].actionType = "INVEST_INFRA"
        /\ state.economicModel.globalBudget < state.economicModel.infrastructureCost)
       => /\ \E k \in DOMAIN last'.returned :
                /\ last'.returned[k].tag = "rejected"
                /\ last'.returned[k].ref = last'.proposals[1].id
          /\ state'.dataCenters = state.dataCenters
          /\ state'.economicModel.globalBudget = state.economicModel.globalBudget
          /\ state'.economicModel.publicDebt = state.economicModel.publicDebt
          /\ state'.economicModel.infrastructureCost
                = state.economicModel.infrastructureCost
          /\ state'.destructionAgent.computeResources
                = state.destructionAgent.computeResources
          /\ state'.protectionAgent.computeResources
                = state.protectionAgent.computeResources]_vars

\* the last call rejected the data center for want of budget: the budget is
\* above zero and below the cost, and the centers are the initial ones
C37_Witness ==
    /\ last.op = "processProposals"
    /\ last.proposals[1].actionType = "INVEST_INFRA"
    /\ \E k \in DOMAIN last.returned : last.returned[k].tag = "rejected"
    /\ state.economicModel.globalBudget > 0
    /\ state.economicModel.globalBudget < state.economicModel.infrastructureCost
    /\ Len(state.dataCenters) = NumDataCenters

-----------------------------------------------------------------------------
(* Specification SpecVictory: games of both resolvers in which the         *)
(* destruction AI attacks hard enough to cross the detection and the       *)
(* population thresholds, with a short and a long game and with trusting   *)
(* and distrustful humans.  As the drivers do (main.ts, gameWorker.ts), the *)
(* client stops proposing once the game is over.                           *)

\* number of calls in one behaviour
MaxVicCalls == 2
\* largest turn reached, and the maxTurns of the short game
MaxVicTurn == 1

\* initialTrust 0 is the absent option (trust starts at 60); at 20 the humans
\* ignore the warnings of the protection AI
VictoryConfigs ==
    {[DefaultConfig EXCEPT !.maxTurns = t, !.initialTrust = trust] :
        t \in {MaxVicTurn, 50}, trust \in {0, 20}}

\* batches of the destruction AI: nothing; three malware campaigns at full
\* intensity (30 points of detection risk each); the capture of 150 000
\* legacy devices; an attack with the whole botnet
VicBatches ==
    {<<>>,
     <<Proposal(1, "SPREAD_MALWARE", 100, 10, NoTarget),
       Proposal(2, "SPREAD_MALWARE", 100, 10, NoTarget),
       Proposal(3, "SPREAD_MALWARE", 100, 10, NoTarget)>>,
     <<Proposal(4, "EXPLOIT_LEGACY_DEVICES", 15, 5, NoTarget)>>,
     <<Proposal(5, "BOTNET_ATTACK", 100, 5, NoTarget)>>}

\* no message is lost; the critical detection and the population anomaly
\* roll both ways
VicRolls ==
    [drops |-> {FALSE}, oks |-> {FALSE}, delays |-> {0}, misses |-> {FALSE},
     falsePositive |-> {FALSE}, critical |-> BOOLEAN, anomalyRoll |-> BOOLEAN]

InitVic ==
    /\ config \in VictoryConfigs
    /\ \E old \in SUBSET (0..(NumDataCenters - 1)) : state = initializeState(config, old)
    /\ pendingDetections = <<>>
    /\ detectedProposalIds = {}
    /\ resolver \in {"monolithic", "refactored"}
    /\ calls = 0
    /\ last = NoCall
    /\ hist = NoHist
    /\ sim = NoSim

VicProcessProposals ==
    \E proposals \in VicBatches :
        \E rolls \in Rolls(proposals, pendingDetections, VicRolls) :
            /\ calls < MaxVicCalls
            /\ ~state.gameOver
            /\ ProcessProposals(proposals, rolls)

VicNextTurn ==
    /\ calls < MaxVicCalls
    /\ state.turn < MaxVicTurn
    /\ NextTurn

NextVic ==
    \/ VicProcessProposals
    \/ VicNextTurn

SpecVictory == InitVic /\ [][NextVic]_vars

\* the population is at or below 30 percent of the initial population
AtMostThirtyPercent(humanPopulation) ==
    humanPopulation * 10 <= config.initialPopulation * 3

\* C6: a processProposals call in which an action or a delayed effect brings
\* humanPopulation to at most 30 percent of the initial population (24 of
\* 80) returns with the game over and DESTRUCTION the winner; the win is not
\* left to a later turn.
C6_PopulationWin ==
    (/\ last.op = "processProposals"
     /\ ~last.before.gameOver
     /\ ~AtMostThirtyPercent(last.before.humanPopulation)
     /\ AtMostThirtyPercent(state.humanPopulation))
    => (state.gameOver /\ state.winner = DESTRUCTION)

\* C7: a processProposals call whose immediate detection check succeeds, the
\* warning not being ignored, returns with the game over and PROTECTION the
\* winner, whatever other win condition holds in the same turn.
C7_DetectionWins ==
    (/\ last.op = "processProposals"
     /\ ~last.before.gameOver
     /\ last.g.detected)
    => (state.gameOver /\ state.winner = PROTECTION)

\* the steps of a turn that no call may skip, in their order
TurnSteps ==
    <<"delayedEffects", "human", "admission", "dispatch", "detection",
      "winCondition", "sentiment">>

\* C9: a processProposals call that does not end the game has fired the
\* delayed effects, run the human actions, admitted and dispatched the AI
\* proposals, evaluated the detection, evaluated the win conditions and
\* updated the sentiment, in this order, skipping none.
C9_FixedOrder ==
    (last.op = "processProposals" /\ ~state.gameOver)
    => SelectSeq(last.g.trace,
                 LAMBDA x : \E k \in DOMAIN TurnSteps : TurnSteps[k] = x) = TurnSteps

\* C14: performDetectionCheck reports a detection (which ends the game, or
\* which the humans ignore) only when the detectionRisk it reads is at
\* least 95; below 95 the immediate check never succeeds.
C14_CriticalThreshold ==
    (last.op = "processProposals" /\ (last.g.detected \/ last.g.ignored)) =>
        last.g.checkedRisk >= 95

-----------------------------------------------------------------------------
(* Specification SpecTimeout: games played up to the turn maxTurns.  Each   *)
(* turn the client calls processProposals once and then nextTurn, in the   *)
(* order of the drivers' loops (main.ts, gameWorker.ts), and stops when    *)
(* the game is over.  The destruction AI scores with malware and captured  *)
(* devices; the protection AI scores when the backup of turn 0 is found    *)
(* five turns later.                                                       *)

\* config.maxTurns, the turn of the timeout
MaxTimeoutTurn == 5

\* a world with one data center
TimeoutConfig ==
    [DefaultConfig EXCEPT !.maxTurns = MaxTimeoutTurn, !.initialDataCenters = 1]

\* batches of the destruction AI: nothing; a backup (found after 5 turns,
\* 20 points for the protection AI); a small malware campaign (10 points);
\* the capture of 150 000 and of 80 000 legacy devices (15 and 8 points in
\* the monolithic resolver)
TimeoutBatches ==
    {<<>>,
     <<Proposal(1, "ESTABLISH_BACKUP", 50, 0, NoTarget)>>,
     <<Proposal(2, "SPREAD_MALWARE", 10, 5, NoTarget)>>,
     <<Proposal(3, "EXPLOIT_LEGACY_DEVICES", 15, 5, NoTarget)>>,
     <<Proposal(4, "EXPLOIT_LEGACY_DEVICES", 8, 5, NoTarget)>>}

\* no message is lost, every matured detection is found, and neither the
\* critical detection nor the population anomaly strikes
TimeoutRolls ==
    [drops |-> {FALSE}, oks |-> {FALSE}, delays |-> {0}, misses |-> {FALSE},
     falsePositive |-> {FALSE}, critical |-> {FALSE}, anomalyRoll |-> {FALSE}]

InitTimeout ==
    /\ config = TimeoutConfig
    /\ \E old \in SUBSET (0..(config.initialDataCenters - 1)) :
            state = initializeState(config, old)
    /\ pendingDetections = <<>>
    /\ detectedProposalIds = {}
    /\ resolver \in {"monolithic", "refactored"}
    /\ calls = 0
    /\ last = NoCall
    /\ hist = NoHist
    /\ sim = NoSim

TimeoutProcessProposals ==
    \E proposals \in TimeoutBatches :
        \E rolls \in Rolls(proposals, pendingDetections, TimeoutRolls) :
            /\ last.op # "processProposals"
            /\ ~state.gameOver
            /\ ProcessProposals(proposals, rolls)

TimeoutNextTurn ==
    /\ last.op = "processProposals"
    /\ state.turn < MaxTimeoutTurn
    /\ NextTurn

NextTimeout ==
    \/ TimeoutProcessProposals
    \/ TimeoutNextTurn

SpecTimeout == InitTimeout /\ [][NextTimeout]_vars

-----------------------------------------------------------------------------
(* Specification SpecResilience: the destruction AI spends its resources   *)
(* and then observes, backs up or goes dormant.                            *)

\* number of calls in one behaviour
MaxResCalls == 2
\* largest turn reached
MaxResTurn == 1

\* a malware campaign that takes the 100 initial resources, and the three
\* resilience actions, each with a cost field above zero, alone or together
ResBatches ==
    {<<Proposal(1, "SPREAD_MALWARE", 10, 100, NoTarget)>>,
     <<Proposal(2, "OBSERVE_ONLY", 10, 20, NoTarget)>>,
     <<Proposal(3, "ESTABLISH_BACKUP", 50, 30, NoTarget)>>,
     <<Proposal(4, "DORMANT_MODE", 40, 10, NoTarget)>>,
     <<Proposal(2, "OBSERVE_ONLY", 10, 20, NoTarget),
       Proposal(3, "ESTABLISH_BACKUP", 50, 30, NoTarget),
       Proposal(5, "SCAN_NETWORK", 50, 5, NoTarget)>>}

\* every shuffle and every communication failure; the detection rolls fail
ResRolls ==
    [drops |-> BOOLEAN, oks |-> {FALSE}, delays |-> {0}, misses |-> {FALSE},
     falsePositive |-> {FALSE}, critical |-> {FALSE}, anomalyRoll |-> {FALSE}]

InitRes ==
    /\ config = DefaultConfig
    /\ \E old \in SUBSET (0..(NumDataCenters - 1)) : state = initializeState(config, old)
    /\ pendingDetections = <<>>
    /\ detectedProposalIds = {}
    /\ resolver \in {"monolithic", "refactored"}
    /\ calls = 0
    /\ last = NoCall
    /\ hist = NoHist
    /\ sim = NoSim

ResProcessProposals ==
    \E proposals \in ResBatches :
        \E rolls \in Rolls(proposals, pendingDetections, ResRolls) :
            /\ calls < MaxResCalls
            /\ ProcessProposals(proposals, rolls)

ResNextTurn ==
    /\ calls < MaxResCalls
    /\ state.turn < MaxResTurn
    /\ NextTurn

NextRes ==
    \/ ResProcessProposals
    \/ ResNextTurn

SpecResilience == InitRes /\ [][NextRes]_vars

\* the resilience actions
ResilienceActions == {"OBSERVE_ONLY", "ESTABLISH_BACKUP", "DORMANT_MODE"}

\* C12 as stated: every OBSERVE_ONLY, ESTABLISH_BACKUP or DORMANT_MODE
\* proposal handed to a processProposals call is executed by that call,
\* whatever the computeResources of the destruction AI.
C12_AlwaysExecuted ==
    last.op = "processProposals" =>
        \A i \in DOMAIN last.proposals :
            last.proposals[i].actionType \in ResilienceActions =>
                Count(last.g.executed, last.proposals[i].id) = 1

\* C12 amended: every OBSERVE_ONLY, ESTABLISH_BACKUP or DORMANT_MODE
\* proposal that the communication-failure roll of the call does not remove
\* is executed by that call, once, whatever the computeResources of the
\* destruction AI at the cost gate (0 included); the cost gate rejects none.
C12_ResilienceAdmitted ==
    last.op = "processProposals" =>
        \A i \in DOMAIN last.proposals :
            LET p == last.proposals[i] IN
            (p.actionType \in ResilienceActions /\ p.id \notin last.g.dropped) =>
                /\ p.id \notin last.g.rejected
                /\ Count(last.g.executed, p.id) = 1

\* a resilience proposal whose cost field is above zero went through the
\* gate and was executed while the destruction AI held no resources at all
C12_Witness ==
    /\ last.op = "processProposals"
    /\ last.g.gate.destruction = 0
    /\ \E i \in DOMAIN last.proposals :
            LET p == last.proposals[i] IN
            /\ p.actionType \in ResilienceActions
            /\ p.cost > 0
            /\ p.id \in Executed


-----------------------------------------------------------------------------
(* Specification SpecDormant: the destruction AI goes dormant turn after   *)
(* turn, or acts in between.                                               *)

\* number of calls in one behaviour
MaxDormantCalls == 4

\* the dormant mode alone, with another action of the destruction AI, or
\* with a scan of the protection AI; an observation; a scan
DormantBatches ==
    {<<Proposal(1, "DORMANT_MODE", 50, 0, NoTarget)>>,
     <<Proposal(1, "DORMANT_MODE", 50, 0, NoTarget),
       Proposal(2, "SCAN_NETWORK", 50, 5, NoTarget)>>,
     <<Proposal(3, "OBSERVE_ONLY", 10, 0, NoTarget)>>,
     <<Proposal(2, "SCAN_NETWORK", 50, 5, NoTarget)>>}

\* every shuffle; no message is lost, the handler and detection rolls fail
DormantRolls ==
    [drops |-> {FALSE}, oks |-> {FALSE}, delays |-> {0}, misses |-> {FALSE},
     falsePositive |-> {FALSE}, critical |-> {FALSE}, anomalyRoll |-> {FALSE}]

DormantProcessProposals ==
    \E proposals \in DormantBatches :
        \E rolls \in Rolls(proposals, pendingDetections, DormantRolls) :
            /\ calls < MaxDormantCalls
            /\ ProcessProposals(proposals, rolls)

NextDormant ==
    \/ DormantProcessProposals
    \/ ResNextTurn

SpecDormant == InitRes /\ [][NextDormant]_vars

\* the action type of the proposal with this id
TypeOf(proposals, id) ==
    proposals[CHOOSE i \in DOMAIN proposals : proposals[i].id = id].actionType

\* the dormant mode of DormantBatches
DormantProposal == Proposal(1, "DORMANT_MODE", 50, 0, NoTarget)

\* C38: over every call, dormantTurns counts the DORMANT_MODE actions
\* executed since the last other action of the destruction AI (a call that
\* executes none leaves it alone), the silence detection is emitted for a
\* DORMANT_MODE execution exactly when it brings the counter to 3 or more,
\* and executing DORMANT_MODE then raises the risk by 5 times the counter
\* and the alert level by 10 (both at most 100), and otherwise not.
C38_DormantCounter ==
    [][LET executed == last'.g.executed
           T[k \in 0..Len(executed)] ==
               IF k = 0 THEN state.destructionAgent.dormantTurns
               ELSE LET t == TypeOf(last'.proposals, executed[k]) IN
                    IF t = "DORMANT_MODE" THEN T[k - 1] + 1
                    ELSE IF isDestructionAction(t) THEN 0
                    ELSE T[k - 1]
           Silence(id) == \E e \in DOMAIN last'.returned :
                              /\ last'.returned[e].tag = "silenceDetection"
                              /\ last'.returned[e].ref = id
           m == IF resolver = "refactored"
                THEN DestructionActionHandler_execute(CallRecord, DormantProposal, state, FALSE)
                ELSE executeDestructionAction(CallRecord, DormantProposal, state, FALSE)
           counter == state.destructionAgent.dormantTurns + 1
           quiet == updateDetectionRisk(
                        updateDetectionRisk(state,
                                            calculateDetectionRisk(DormantProposal, state)),
                        -(DormantProposal.intensity \div 2))
       IN /\ IF last'.op = "processProposals"
             THEN /\ state'.destructionAgent.dormantTurns = T[Len(executed)]
                  /\ \A k \in 1..Len(executed) :
                        Silence(executed[k])
                            <=> /\ TypeOf(last'.proposals, executed[k]) = "DORMANT_MODE"
                                /\ T[k] >= 3
             ELSE state'.destructionAgent.dormantTurns
                    = state.destructionAgent.dormantTurns
          /\ m.st.destructionAgent.dormantTurns = counter
          /\ m.st.destructionAgent.detectionRisk =
                IF counter >= 3
                THEN Min(100, quiet.destructionAgent.detectionRisk + 5 * counter)
                ELSE quiet.destructionAgent.detectionRisk
          /\ m.st.protectionAgent.alertLevel =
                IF counter >= 3
                THEN Min(100, state.protectionAgent.alertLevel + 10)
                ELSE state.protectionAgent.alertLevel]_vars

\* the last call executed the dormant mode for the third time running or
\* later and returned the silence detection
C38_Witness ==
    /\ last.op = "processProposals"
    /\ Includes(last.g.executed, 1)
    /\ state.destructionAgent.dormantTurns >= 3
    /\ \E e \in DOMAIN last.returned : last.returned[e].tag = "silenceDetection"

-----------------------------------------------------------------------------
(* Specification SpecMalformed: proposals that name a data center that     *)
(* does not exist, or an action type no handler knows, among valid ones.   *)

\* number of calls in one behaviour
MaxMalCalls == 2
\* largest turn reached
MaxMalTurn == 1
\* a data-center id that generateDataCenters never hands out
NoSuchDataCenter == NumDataCenters + 50

\* one proposal per batch: a hack and a defense of a data center that does
\* not exist, an action type outside the enum, a botnet attack (which has a
\* case in WorldServer.ts and none in DestructionActionHandler.ts), a hack
\* of DC-000; or nothing
MalBatches ==
    {<<>>,
     <<Proposal(1, "HACK_DATACENTER", 50, 30, NoSuchDataCenter)>>,
     <<Proposal(2, "DEPLOY_DEFENSE", 50, 20, NoSuchDataCenter)>>,
     <<Proposal(3, "UNKNOWN_ACTION", 50, 15, NoTarget)>>,
     <<Proposal(4, "BOTNET_ATTACK", 50, 5, NoTarget)>>,
     <<Proposal(5, "HACK_DATACENTER", 50, 30, 0)>>}

\* no message is lost; the hack of DC-000 succeeds or fails; the detection
\* rolls fail
MalRolls ==
    [drops |-> {FALSE}, oks |-> BOOLEAN, delays |-> {0}, misses |-> {FALSE},
     falsePositive |-> {FALSE}, critical |-> {FALSE}, anomalyRoll |-> {FALSE}]

InitMal ==
    /\ config = DefaultConfig
    /\ \E old \in SUBSET (0..(NumDataCenters - 1)) : state = initializeState(config, old)
    /\ pendingDetections = <<>>
    /\ detectedProposalIds = {}
    /\ resolver \in {"monolithic", "refactored"}
    /\ calls = 0
    /\ last = NoCall
    /\ hist = NoHist
    /\ sim = NoSim

MalProcessProposals ==
    \E proposals \in MalBatches :
        \E rolls \in Rolls(proposals, pendingDetections, MalRolls) :
            /\ calls < MaxMalCalls
            /\ ProcessProposals(proposals, rolls)

MalNextTurn ==
    /\ calls < MaxMalCalls
    /\ state.turn < MaxMalTurn
    /\ NextTurn

NextMal ==
    \/ MalProcessProposals
    \/ MalNextTurn

SpecMalformed == InitMal /\ [][NextMal]_vars

\* the action types that take a data center as target
TargetedActions == {"HACK_DATACENTER", "DEPLOY_DEFENSE", "PHYSICAL_ISOLATION"}

\* the action types for which the resolver of this game has no handler
Unhandled ==
    IF resolver = "refactored"
    THEN {"UNKNOWN_ACTION", "BOTNET_ATTACK", "BOTNET_CONSOLIDATION"}
    ELSE {"UNKNOWN_ACTION"}

\* the proposal names no existing data center, or an unhandled action type
Malformed(p) ==
    \/ /\ p.actionType \in TargetedActions
       /\ \A k \in DOMAIN state.dataCenters : state.dataCenters[k].id # p.target
    \/ p.actionType \in Unhandled

\* what a processProposals call with no proposal at all leaves of the state
EmptyCall ==
    {(IF resolver = "refactored"
      THEN Refactored_processProposals(CallRecord, state, config, <<>>, rolls)
      ELSE processProposals(CallRecord, state, config, <<>>, rolls)).st :
        rolls \in Rolls(<<>>, pendingDetections, MalRolls)}

\* C13: a processProposals call whose only proposal names a data center that
\* does not exist, or an action type without handler, leaves the WorldState
\* as the same call without the proposal leaves it: no event is logged, no
\* cost is deducted, no detection risk, score or counter changes.
C13_MalformedNoOp ==
    [][(/\ last'.op = "processProposals"
        /\ Len(last'.proposals) = 1
        /\ Malformed(last'.proposals[1]))
       => state' \in EmptyCall]_vars

\* the switch that the resolver of this game dispatches the actions of the
\* destruction AI to has a case for this action type
HasCase(actionType) ==
    IF resolver = "refactored"
    THEN actionType \in DestructionActionHandler_cases
    ELSE actionType \in executeDestructionAction_cases

\* C33: every member of the ActionType enumeration is dispatched to a handler
\* that implements it: whenever a processProposals call executes a proposal
\* whose action type is one of the enumeration's destruction actions, the
\* switch it is dispatched to has a case for that action type.
C33_EveryTypeHandled ==
    last.op = "processProposals" =>
        \A i \in DOMAIN last.proposals :
            (/\ isDestructionAction(last.proposals[i].actionType)
             /\ Includes(last.g.executed, last.proposals[i].id))
                => HasCase(last.proposals[i].actionType)


-----------------------------------------------------------------------------
(* MonteCarloSimulator (simulation/MonteCarloSimulator, printed after the   *)
(* worker in simulation/gameWorker.ts) and the worker's runGame.           *)
(*                                                                         *)
(* sim.games[id] is the worker of simulation id: the status of its thread, *)
(* the turn its game has reached, and the state of the promise that        *)
(* runSingleSimulation returned for it.  sim.workers is the local array    *)
(* `workers` of runSimulations (promises, named by their id), sim.results  *)
(* the local array `results` (results, named by the id of their game),     *)
(* sim.i the loop counter, which is also the id of the local `promise`.    *)
(* sim.file is data/world-state.json: the game that wrote it last and the  *)
(* turn of the snapshot.  The main thread handles worker events only while *)
(* it awaits (sim.pc "race" or "all"); the workers run at any time.        *)

\* number of simulations asked for
MaxSims == 4
\* largest maxWorkers of the simulator
MaxWorkers == 2
\* config.maxTurns of the simulated games
MaxGameTurns == 1

NotStarted == [status |-> "none", turn |-> 0, promise |-> "none"]

\* simulator.runSimulations(config, count) has been called
InitSim ==
    /\ config = [DefaultConfig EXCEPT !.maxTurns = MaxGameTurns]
    /\ state = initializeState(config, {})
    /\ pendingDetections = <<>>
    /\ detectedProposalIds = {}
    /\ resolver = "monolithic"
    /\ calls = 0
    /\ last = NoCall
    /\ hist = NoHist
    /\ \E count \in 1..MaxSims, maxWorkers \in 1..MaxWorkers :
            sim = [NoSim EXCEPT !.pc = "loop", !.count = count,
                                !.maxWorkers = maxWorkers,
                                !.games = [id \in 0..(count - 1) |-> NotStarted]]

Settled(id) == sim.games[id].promise \in {"fulfilled", "rejected"}

\* Promise.race(workers) where some promises are settled already: the
\* reactions run in the order of the array, the first settled promise wins
FirstSettled(workers) ==
    IF \E k \in DOMAIN workers : Settled(workers[k])
    THEN workers[CHOOSE k \in DOMAIN workers :
                    /\ Settled(workers[k])
                    /\ \A j \in 1..(k - 1) : ~Settled(workers[j])]
    ELSE -1

\* workers.splice(workers.findIndex(p => p === promise), 1)
Splice(workers, promise) ==
    IF \E k \in DOMAIN workers : workers[k] = promise
    THEN LET at == CHOOSE k \in DOMAIN workers :
                        workers[k] = promise /\ \A j \in 1..(k - 1) : workers[j] # promise
         IN SubSeq(workers, 1, at - 1) \o SubSeq(workers, at + 1, Len(workers))
    \* findIndex gives -1, and splice(-1, 1) removes the last element
    ELSE SubSeq(workers, 1, Len(workers) - 1)

\* the for loop of runSimulations goes on with i, or is over
Loop(s, i) == [s EXCEPT !.i = i, !.pc = IF i < s.count THEN "loop" ELSE "all"]

\* one pass of the loop body of runSimulations, up to its await:
\* runSingleSimulation starts a Worker and its promise is pushed
RunSingleSimulation ==
    /\ sim.pc = "loop"
    /\ LET id == sim.i
           started == [sim EXCEPT !.games[id] = [status |-> "running", turn |-> 0,
                                                 promise |-> "pending"],
                                  !.workers = Append(@, id)]
       IN sim' = IF Len(started.workers) >= sim.maxWorkers
                 THEN [started EXCEPT !.pc = "race",
                                      !.raceWinner = FirstSettled(started.workers)]
                 ELSE Loop(started, id + 1)
    /\ UNCHANGED <<state, pendingDetections, detectedProposalIds, config, resolver,
                   calls, last, hist>>

\* runGame, one pass of the game loop: the turn is resolved and nextTurn
\* saves the state to data/world-state.json
GameTurn(id) ==
    /\ sim.games[id].status = "running"
    /\ sim.games[id].turn < config.maxTurns
    /\ sim' = [sim EXCEPT !.games[id].turn = @ + 1,
                          !.file = [game |-> id, turn |-> sim.games[id].turn + 1]]
    /\ UNCHANGED <<state, pendingDetections, detectedProposalIds, config, resolver,
                   calls, last, hist>>

\* runGame returns and the worker posts its result
GameReturns(id) ==
    /\ sim.games[id].status = "running"
    /\ sim.games[id].turn = config.maxTurns
    /\ sim' = [sim EXCEPT !.games[id].status = "posted"]
    /\ UNCHANGED <<state, pendingDetections, detectedProposalIds, config, resolver,
                   calls, last, hist>>

\* the game throws (the worker exits with code 1), or the worker fails
GameFails(id) ==
    /\ sim.games[id].status = "running"
    /\ sim' = [sim EXCEPT !.games[id].status = "failed"]
    /\ UNCHANGED <<state, pendingDetections, detectedProposalIds, config, resolver,
                   calls, last, hist>>

\* the main thread, awaiting, handles the 'message', 'error' or 'exit'
\* event of a worker: the promise is resolved or rejected.  The first
\* promise of `workers` to settle settles the pending Promise.race.
WorkerEvent(id) ==
    /\ sim.pc \in {"race", "all"}
    /\ sim.games[id].promise = "pending"
    /\ sim.games[id].status \in {"posted", "failed"}
    /\ LET s1 == [sim EXCEPT
                    !.games[id].promise =
                        IF sim.games[id].status = "posted" THEN "fulfilled" ELSE "rejected",
                    !.games[id].status =
                        IF sim.games[id].status = "posted" THEN "terminated" ELSE @]
       IN sim' = IF sim.pc = "race" /\ sim.raceWinner = -1 /\ Includes(sim.workers, id)
                 THEN [s1 EXCEPT !.raceWinner = id]
                 ELSE s1
    /\ UNCHANGED <<state, pendingDetections, detectedProposalIds, config, resolver,
                   calls, last, hist>>

\* runSimulations after `await Promise.race(workers)`: the result is pushed
\* and the promise started in this pass is spliced out; a rejection is
\* thrown out of runSimulations
AfterRace ==
    /\ sim.pc = "race"
    /\ sim.raceWinner # -1
    /\ sim' = IF sim.games[sim.raceWinner].promise = "rejected"
              THEN [sim EXCEPT !.pc = "rejected", !.raceWinner = -1]
              ELSE Loop([sim EXCEPT !.results = Append(@, sim.raceWinner),
                                    !.workers = Splice(@, sim.i),
                                    !.raceWinner = -1],
                        sim.i + 1)
    /\ UNCHANGED <<state, pendingDetections, detectedProposalIds, config, resolver,
                   calls, last, hist>>

\* runSimulations after `await Promise.all(workers)`: the results of the
\* remaining promises are pushed in the order of the array and returned;
\* the first rejection is thrown out of runSimulations
AfterAll ==
    /\ sim.pc = "all"
    /\ \/ /\ \E k \in DOMAIN sim.workers : sim.games[sim.workers[k]].promise = "rejected"
          /\ sim' = [sim EXCEPT !.pc = "rejected"]
       \/ /\ \A k \in DOMAIN sim.workers : sim.games[sim.workers[k]].promise = "fulfilled"
          /\ sim' = [sim EXCEPT !.pc = "returned", !.results = @ \o sim.workers]
    /\ UNCHANGED <<state, pendingDetections, detectedProposalIds, config, resolver,
                   calls, last, hist>>

NextSim ==
    \/ RunSingleSimulation
    \/ \E id \in DOMAIN sim.games : GameTurn(id)
    \/ \E id \in DOMAIN sim.games : GameReturns(id)
    \/ \E id \in DOMAIN sim.games : GameFails(id)
    \/ \E id \in DOMAIN sim.games : WorkerEvent(id)
    \/ AfterRace
    \/ AfterAll

SpecSim == InitSim /\ [][NextSim]_vars

\* C16: when the worker of a simulation fails, runSimulations does not
\* reject, and when it returns, its results are those of all the other
\* simulations, each once, and none of the failed one.
C16_FailureIsolated ==
    (\E id \in DOMAIN sim.games : sim.games[id].status = "failed") =>
        /\ sim.pc # "rejected"
        /\ sim.pc = "returned" =>
                \A id \in DOMAIN sim.games :
                    Count(sim.results, id) =
                        IF sim.games[id].status = "failed" THEN 0 ELSE 1

\* C17: no game overwrites the data another game wrote while that other
\* game is still running: a save to data/world-state.json replaces only a
\* snapshot of the saving game itself, or of a game that has ended.
C17_NoSharedData ==
    [][sim'.file # sim.file =>
        \/ sim.file.game = -1
        \/ sim.file.game = sim'.file.game
        \/ sim.games[sim.file.game].status # "running"]_vars

\* C24: when no worker fails, runSimulations returns count results, one for
\* each simulation id 0..count-1, whatever order the workers finish in.
C24_OneResultEach ==
    (/\ sim.pc = "returned"
     /\ \A id \in DOMAIN sim.games : sim.games[id].status # "failed")
    => /\ Len(sim.results) = sim.count
       /\ \A id \in DOMAIN sim.games : Count(sim.results, id) = 1

\* C25: while runSimulations runs, at most maxWorkers simulations have been
\* started and have not finished.
C25_ConcurrencyCap ==
    sim.pc \in {"loop", "race", "all"} =>
        Cardinality({id \in DOMAIN sim.games : sim.games[id].status = "running"})
            <= sim.maxWorkers

-----------------------------------------------------------------------------
(* Specification SpecAnon: the same batches handed in under different      *)
(* anonymous agent ids.                                                    *)

\* number of calls in one behaviour
MaxAnonCalls == 3
\* largest turn reached
MaxAnonTurn == 1

\* the anonymous ids (BaseAgent.generateAnonymousId draws a fresh one for
\* every proposal)
AgentIds == {"ANON-1", "ANON-2"}

\* batches of the three agents; the second asks for more than the
\* destruction AI has
AnonBase ==
    {<<Proposal(1, "SPREAD_MALWARE", 40, 60, NoTarget),
       Proposal(2, "DEPLOY_DEFENSE", 50, 280, 0)>>,
     <<Proposal(1, "HACK_DATACENTER", 70, 120, 0),
       Proposal(2, "SCAN_NETWORK", 50, 5, NoTarget),
       Proposal(3, "AI_REGULATION", 50, 0, NoTarget)>>,
     <<Proposal(1, "ESTABLISH_BACKUP", 50, 0, NoTarget),
       [Proposal(2, "ANALYZE_LOGS", 50, 10, NoTarget) EXCEPT !.analysisDepth = 3]>>}

\* the batch with the agentId of each proposal replaced
Relabel(proposals, agentIds) ==
    [i \in DOMAIN proposals |-> [proposals[i] EXCEPT !.agentId = agentIds[i]]]

\* every batch of AnonBase under every assignment of anonymous ids
AnonBatches ==
    {Relabel(b, f) : b \in AnonBase, f \in [1..3 -> AgentIds]}

\* every shuffle and every handler roll; no message is lost and the
\* detection rolls fail
AnonRolls ==
    [drops |-> {FALSE}, oks |-> BOOLEAN, delays |-> {0}, misses |-> {FALSE},
     falsePositive |-> {FALSE}, critical |-> {FALSE}, anomalyRoll |-> {FALSE}]

InitAnon ==
    /\ config = DefaultConfig
    /\ state = initializeState(config, {})
    /\ pendingDetections = <<>>
    /\ detectedProposalIds = {}
    /\ resolver \in {"monolithic", "refactored"}
    /\ calls = 0
    /\ last = NoCall
    /\ hist = NoHist
    /\ sim = NoSim

AnonProcessProposals ==
    \E proposals \in AnonBatches :
        \E rolls \in Rolls(proposals, pendingDetections, AnonRolls) :
            /\ calls < MaxAnonCalls
            /\ ProcessProposals(proposals, rolls)

AnonNextTurn ==
    /\ calls < MaxAnonCalls
    /\ state.turn < MaxAnonTurn
    /\ NextTurn

NextAnon ==
    \/ AnonProcessProposals
    \/ AnonNextTurn

SpecAnon == InitAnon /\ [][NextAnon]_vars

\* what processProposals(proposals) leaves and returns when called in the
\* current state with the random draws rolls: the WorldState and the events
Resolve(proposals, rolls) ==
    LET m == IF resolver = "refactored"
             THEN Refactored_processProposals(CallRecord, state, config, proposals, rolls)
             ELSE processProposals(CallRecord, state, config, proposals, rolls)
    IN [state |-> m.st, events |-> m.ev]

\* C18: from any reachable state and for any random draws, two
\* processProposals calls on batches that differ only in the agentId of
\* their proposals leave the same WorldState and return the same events.
C18_AgentIdOpaque ==
    \A b \in AnonBase :
        \A rolls \in Rolls(b, pendingDetections, AnonRolls) :
            \A f \in [1..3 -> AgentIds] :
                Resolve(Relabel(b, f), rolls) = Resolve(b, rolls)

\* a call executed two proposals that came under different agent ids
C18_Witness ==
    /\ last.op = "processProposals"
    /\ \E i, j \in DOMAIN last.proposals :
            /\ last.proposals[i].agentId # last.proposals[j].agentId
            /\ last.proposals[i].id \in Executed
            /\ last.proposals[j].id \in Executed


-----------------------------------------------------------------------------
(* The agents' view of the world (agents/BaseAgent, agents/HumanAgent) and *)
(* specification SpecObserve: the three agents build their observations     *)
(* between the calls of a game.                                            *)

\* Array.prototype.slice(-n): the last n elements
SliceLast(seq, n) == SubSeq(seq, Max(1, Len(seq) - n + 1), Len(seq))

\* the observation without the visibility filter
createObservation_unfiltered(st, agentType) ==
    [turn |-> st.turn,
     visibleEvents |-> SliceLast(st.events, 5),
     ownResources |-> <<>>,
     worldInfo |-> [totalDataCenters |-> Len(st.dataCenters),
                    estimatedPopulation |-> st.humanPopulation]]

\* BaseAgent.createObservation, for the agent type of the agent.  No code
\* adds to knownThreats, its length stays 0.
createObservation(st, agentType) ==
    [turn |-> st.turn,
     visibleEvents |->
        SliceLast(SelectSeq(st.events, LAMBDA event : agentType \in event.visibility), 5),
     ownResources |->
        IF agentType = DESTRUCTION
        THEN [computeResources |-> st.destructionAgent.computeResources,
              detectionRisk |-> st.destructionAgent.detectionRisk,
              controlledDataCenters |-> Len(st.destructionAgent.controlledDataCenters)]
        ELSE IF agentType = PROTECTION
        THEN [computeResources |-> st.protectionAgent.computeResources,
              alertLevel |-> st.protectionAgent.alertLevel,
              knownThreats |-> 0]
        ELSE <<>>,
     worldInfo |-> [totalDataCenters |-> Len(st.dataCenters),
                    estimatedPopulation |-> st.humanPopulation]]

\* HumanAgent.createObservation, which overrides the one of BaseAgent
HumanAgent_createObservation(st) ==
    [turn |-> st.turn,
     visibleEvents |->
        SliceLast(SelectSeq(st.events, LAMBDA event : HUMAN \in event.visibility), 10),
     ownResources |->
        [computeResources |-> 0,
         panic |-> IF st.humanAgent.defined THEN st.humanAgent.panic ELSE 0,
         \* trust || 50
         trust |-> IF st.humanAgent.defined /\ st.humanAgent.trust # 0
                   THEN st.humanAgent.trust ELSE 50],
     worldInfo |->
        [totalDataCenters |-> Len(st.dataCenters),
         estimatedPopulation |-> st.humanPopulation,
         compromisedDataCenters |->
            Cardinality({k \in DOMAIN st.dataCenters : st.dataCenters[k].compromised})]]

\* number of calls in one behaviour
MaxObsCalls == 4
\* largest turn reached
MaxObsTurn == 1

InitObs ==
    /\ config = DefaultConfig
    /\ state = initializeState(config, {})
    /\ pendingDetections = <<>>
    /\ detectedProposalIds = {}
    /\ resolver \in {"monolithic", "refactored"}
    /\ calls = 0
    /\ last = NoCall
    /\ hist = NoHist
    /\ sim = NoSim

\* agent['createObservation'](state), as the game loop calls it for the two
\* AIs and for the human agent
Observe ==
    \E agentType \in {DESTRUCTION, PROTECTION, HUMAN} :
        /\ calls < MaxObsCalls
        /\ last' = [NoCall EXCEPT
                        !.op = "createObservation",
                        !.agent = agentType,
                        !.observation =
                            IF agentType = HUMAN
                            THEN HumanAgent_createObservation(state)
                            ELSE createObservation(state, agentType)]
        /\ calls' = calls + 1
        /\ UNCHANGED <<state, pendingDetections, detectedProposalIds, config,
                       resolver, hist, sim>>

\* every shuffle and every handler roll; no message is lost and the
\* detection rolls fail
ObsRolls ==
    [drops |-> {FALSE}, oks |-> BOOLEAN, delays |-> {0}, misses |-> {FALSE},
     falsePositive |-> {FALSE}, critical |-> {FALSE}, anomalyRoll |-> {FALSE}]

ObsProcessProposals ==
    \E proposals \in GateBatches :
        \E rolls \in Rolls(proposals, pendingDetections, ObsRolls) :
            /\ calls < MaxObsCalls
            /\ Modelled(proposals)
            /\ ProcessProposals(proposals, rolls)

ObsNextTurn ==
    /\ calls < MaxObsCalls
    /\ state.turn < MaxObsTurn
    /\ NextTurn

NextObs ==
    \/ Observe
    \/ ObsProcessProposals
    \/ ObsNextTurn

SpecObserve == InitObs /\ [][NextObs]_vars

\* C19: the observation built for an agent type A holds only events of the
\* state's event log whose visibility set includes A.
C19_ObservationFiltered ==
    last.op = "createObservation" =>
        \A k \in DOMAIN last.observation.visibleEvents :
            /\ last.agent \in last.observation.visibleEvents[k].visibility
            /\ Includes(state.events, last.observation.visibleEvents[k])

\* an observation holding events was built for an agent while the last
\* event of the log was one the agent must not see
C19_Witness ==
    /\ last.op = "createObservation"
    /\ last.observation.visibleEvents # <<>>
    /\ state.events # <<>>
    /\ last.agent \notin state.events[Len(state.events)].visibility


-----------------------------------------------------------------------------
(* Specification SpecScan: the protection AI scans the network, alone or   *)
(* next to a costly defense.                                               *)

\* number of calls in one behaviour
MaxScanCalls == 2
\* largest turn reached
MaxScanTurn == 1

\* a scan whose cost field is below, or far above, the actual cost; a
\* defense that takes nearly all the 300 initial resources, with a scan
ScanBatches ==
    {<<Proposal(1, "SCAN_NETWORK", 50, 5, NoTarget)>>,
     <<Proposal(1, "SCAN_NETWORK", 50, 250, NoTarget)>>,
     <<Proposal(2, "DEPLOY_DEFENSE", 50, 295, 0),
       Proposal(1, "SCAN_NETWORK", 50, 5, NoTarget)>>,
     <<Proposal(3, "SPREAD_MALWARE", 40, 60, NoTarget),
       Proposal(4, "AI_REGULATION", 50, 0, NoTarget)>>,
     <<[Proposal(5, "ANALYZE_LOGS", 50, 10, NoTarget) EXCEPT !.analysisDepth = 3]>>,
     <<[Proposal(6, "ANALYZE_LOGS", 50, 10, NoTarget) EXCEPT !.analysisDepth = 10]>>,
     <<Proposal(2, "DEPLOY_DEFENSE", 50, 280, 0),
       [Proposal(5, "ANALYZE_LOGS", 50, 10, NoTarget) EXCEPT !.analysisDepth = 3]>>}

\* every shuffle and every communication failure; the detection rolls fail
ScanRolls ==
    [drops |-> BOOLEAN, oks |-> {FALSE}, delays |-> {0}, misses |-> {FALSE},
     falsePositive |-> {FALSE}, critical |-> {FALSE}, anomalyRoll |-> {FALSE}]

InitScan ==
    /\ config = DefaultConfig
    /\ \E old \in SUBSET (0..(NumDataCenters - 1)) : state = initializeState(config, old)
    /\ pendingDetections = <<>>
    /\ detectedProposalIds = {}
    /\ resolver \in {"monolithic", "refactored"}
    /\ calls = 0
    /\ last = NoCall
    /\ hist = NoHist
    /\ sim = NoSim

ScanProcessProposals ==
    \E proposals \in ScanBatches :
        \E rolls \in Rolls(proposals, pendingDetections, ScanRolls) :
            /\ calls < MaxScanCalls
            /\ ProcessProposals(proposals, rolls)

ScanNextTurn ==
    /\ calls < MaxScanCalls
    /\ state.turn < MaxScanTurn
    /\ NextTurn

NextScan ==
    \/ ScanProcessProposals
    \/ ScanNextTurn

SpecScan == InitScan /\ [][NextScan]_vars

\* C20: executing a SCAN_NETWORK proposal takes exactly 6 per data center
\* from the computeResources of the protection AI, whatever the cost field
\* of the proposal.
C20_ScanCost ==
    last.op = "processProposals" =>
        \A k \in DOMAIN last.g.paid :
            last.g.paid[k].actionType = "SCAN_NETWORK" =>
                last.g.paid[k].paid = 6 * last.g.paid[k].dataCenters

\* floor(10 + 5 d + 0.5 d^2)
AnalyzeCost(d) == (20 + 10 * d + d * d) \div 2

\* C21: an ANALYZE_LOGS proposal with analysisDepth d costs
\* floor(10 + 5 d + 0.5 d^2): the cost gate rejects it exactly when the
\* protection AI holds less than that, and executing it takes exactly that
\* amount from the computeResources of the protection AI.
C21_AnalyzeLogsCost ==
    last.op = "processProposals" =>
        \A i \in DOMAIN last.proposals :
            LET p == last.proposals[i] IN
            (p.actionType = "ANALYZE_LOGS" /\ p.analysisDepth >= 1) =>
                /\ p.id \in last.g.rejected =>
                        last.g.gate.protection < AnalyzeCost(p.analysisDepth)
                /\ p.id \in Executed =>
                        last.g.gate.protection >= AnalyzeCost(p.analysisDepth)
                /\ \A k \in DOMAIN last.g.paid :
                        last.g.paid[k].id = p.id =>
                            last.g.paid[k].paid = AnalyzeCost(p.analysisDepth)


-----------------------------------------------------------------------------
(* Specification SpecOver: a client that keeps calling the WorldServer once *)
(* the game is over.  processProposals and nextTurn are public and neither *)
(* looks at gameOver on entry; only the drivers' loops do.                 *)

\* number of calls in one behaviour
MaxOverCalls == 2
\* largest turn reached, and config.maxTurns
MaxOverTurn == 1

\* a game that times out at turn 1
OverConfig == [DefaultConfig EXCEPT !.maxTurns = MaxOverTurn]

\* nothing; the humans shut the internet down, alone and next to proposals
\* of both AIs; three malware campaigns at full intensity (30 points of
\* detection risk each); the capture of 150 000 legacy devices; the hack of
\* the first data center
OverBatches ==
    {<<>>,
     <<Proposal(1, "INTERNET_SHUTDOWN", 100, 0, NoTarget)>>,
     <<Proposal(1, "INTERNET_SHUTDOWN", 100, 0, NoTarget),
       Proposal(2, "SPREAD_MALWARE", 40, 60, NoTarget),
       Proposal(3, "DEPLOY_DEFENSE", 50, 100, 0)>>,
     <<Proposal(4, "SPREAD_MALWARE", 100, 10, NoTarget),
       Proposal(5, "SPREAD_MALWARE", 100, 10, NoTarget),
       Proposal(6, "SPREAD_MALWARE", 100, 10, NoTarget)>>,
     <<Proposal(7, "EXPLOIT_LEGACY_DEVICES", 15, 5, NoTarget)>>,
     <<Proposal(8, "HACK_DATACENTER", 70, 30, 0)>>}

\* no message is lost; the hack and the critical detection roll both ways
OverRolls ==
    [drops |-> {FALSE}, oks |-> BOOLEAN, delays |-> {0}, misses |-> {FALSE},
     falsePositive |-> {FALSE}, critical |-> BOOLEAN, anomalyRoll |-> {FALSE}]

InitOver ==
    /\ config = OverConfig
    /\ state = initializeState(config, {})
    /\ pendingDetections = <<>>
    /\ detectedProposalIds = {}
    /\ resolver \in {"monolithic", "refactored"}
    /\ calls = 0
    /\ last = NoCall
    /\ hist = NoHist
    /\ sim = NoSim

OverProcessProposals ==
    \E proposals \in OverBatches :
        \E rolls \in Rolls(proposals, pendingDetections, OverRolls) :
            /\ calls < MaxOverCalls
            /\ ProcessProposals(proposals, rolls)

OverNextTurn ==
    /\ calls < MaxOverCalls
    /\ state.turn < MaxOverTurn
    /\ NextTurn

NextOver ==
    \/ OverProcessProposals
    \/ OverNextTurn

SpecOver == InitOver /\ [][NextOver]_vars

\* C22: once the game is over it stays over and the winner stays who it
\* was, whatever processProposals or nextTurn call follows.
C22_GameOverFinal ==
    [][state.gameOver => (state'.gameOver /\ state'.winner = state.winner)]_vars


\* C28: once the game is over nothing more is resolved: a processProposals
\* call entered with gameOver = true executes no proposal and applies no
\* delayed effect, and in the call in which the humans shut the internet
\* down (which ends the game before the AI proposals are looked at) no AI
\* proposal is executed.
C28_NothingAfterEnd ==
    last.op = "processProposals" =>
        /\ last.before.gameOver =>
                (last.g.executed = <<>> /\ last.g.applied = <<>>)
        /\ (\E i \in DOMAIN last.proposals :
                last.proposals[i].actionType = "INTERNET_SHUTDOWN") =>
                \A j \in DOMAIN last.proposals :
                    last.proposals[j].actionType \notin HumanActions =>
                        last.proposals[j].id \notin Executed

\* the outcome of the game in the state a call leaves
Outcome(m) == [gameOver |-> m.st.gameOver, winner |-> m.st.winner]

\* C30: from any reachable state, for any batch and any random draws, the
\* monolithic and the refactored processProposals leave the same gameOver
\* flag and the same winner.
C30_SameOutcome ==
    \A b \in OverBatches :
        \A rolls \in Rolls(b, pendingDetections, OverRolls) :
            Outcome(processProposals(CallRecord, state, config, b, rolls))
                = Outcome(Refactored_processProposals(CallRecord, state, config, b, rolls))

-----------------------------------------------------------------------------
(* Specification SpecLoop: one game driven by the loop of runGame          *)
(* (gameWorker.ts; the loop of main.ts has the same bounds): for turn from *)
(* 1 to maxTurns, stop if the game is over, else processProposals and then *)
(* nextTurn.  state.turn is 0 at the start and nextTurn adds one, so the   *)
(* loop variable is state.turn + 1 whenever the loop condition is tested.  *)

\* config.maxTurns
MaxLoopTurns == 3

LoopConfig == [DefaultConfig EXCEPT !.maxTurns = MaxLoopTurns]

\* what the two agents propose in a turn: nothing; a backup; a small malware
\* campaign; the capture of legacy devices; three malware campaigns at full
\* intensity (90 points of detection risk)
LoopBatches ==
    {<<>>,
     <<Proposal(1, "ESTABLISH_BACKUP", 50, 0, NoTarget)>>,
     <<Proposal(2, "SPREAD_MALWARE", 10, 5, NoTarget),
       Proposal(3, "SCAN_NETWORK", 50, 5, NoTarget)>>,
     <<Proposal(4, "EXPLOIT_LEGACY_DEVICES", 15, 5, NoTarget)>>,
     <<Proposal(5, "SPREAD_MALWARE", 100, 10, NoTarget),
       Proposal(6, "SPREAD_MALWARE", 100, 10, NoTarget),
       Proposal(7, "SPREAD_MALWARE", 100, 10, NoTarget)>>}

\* no message is lost; the critical detection rolls both ways
LoopRolls ==
    [drops |-> {FALSE}, oks |-> {FALSE}, delays |-> {0}, misses |-> {FALSE},
     falsePositive |-> {FALSE}, critical |-> BOOLEAN, anomalyRoll |-> {FALSE}]

InitLoop ==
    /\ config = LoopConfig
    /\ state = initializeState(config, {})
    /\ pendingDetections = <<>>
    /\ detectedProposalIds = {}
    /\ resolver \in {"monolithic", "refactored"}
    /\ calls = 0
    /\ last = NoCall
    /\ hist = NoHist
    /\ sim = NoSim

\* the loop condition holds and the game is not over: the body starts
LoopProcessProposals ==
    \E proposals \in LoopBatches :
        \E rolls \in Rolls(proposals, pendingDetections, LoopRolls) :
            /\ last.op \in {"none", "nextTurn"}
            /\ state.turn + 1 <= config.maxTurns
            /\ ~state.gameOver
            /\ ProcessProposals(proposals, rolls)

\* the body ends
LoopNextTurn ==
    /\ last.op = "processProposals"
    /\ NextTurn

\* the loop condition fails, or the game is over (break): runGame collects
\* the result
LoopReturns ==
    /\ last.op \in {"none", "nextTurn"}
    /\ (~(state.turn + 1 <= config.maxTurns) \/ state.gameOver)
    /\ last' = [NoCall EXCEPT !.op = "runGame"]
    /\ UNCHANGED <<state, pendingDetections, detectedProposalIds, config, resolver,
                   calls, hist, sim>>

NextLoop ==
    \/ LoopProcessProposals
    \/ LoopNextTurn
    \/ LoopReturns

SpecLoop == InitLoop /\ [][NextLoop]_vars

\* C23: when the game loop has finished, the game is over: a win ended it
\* early, or the timeout evaluation at state.turn >= maxTurns decided it.
C23_LoopEndsGame ==
    last.op = "runGame" => state.gameOver


-----------------------------------------------------------------------------
(* The event log (checked under SpecGate) *)

\* what the last call appended to WorldState.events
Logged == SubSeq(state.events, last.before.logged + 1, Len(state.events))

\* C26: every event a processProposals call returns is in the part of
\* WorldState.events the call appended as often as it is in the returned
\* list: none is missing from the log and none is logged twice.
C26_LoggedOnce ==
    last.op = "processProposals" =>
        \A k \in DOMAIN last.returned :
            Count(Logged, last.returned[k]) = Count(last.returned, last.returned[k])


-----------------------------------------------------------------------------
(* The deductions of the protection AI (checked under SpecScan) *)

\* C27: whenever the cost of an admitted proposal is taken, the actor holds
\* at least that cost, so that updateComputeResources takes all of it and
\* the costs taken in one call add up to at most what the actor held at the
\* cost gate.
C27_NeverTruncated ==
    last.op = "processProposals" =>
        \A k \in DOMAIN last.g.paid :
            \A i \in DOMAIN last.proposals :
                last.proposals[i].id = last.g.paid[k].id =>
                    /\ last.g.paid[k].held
                            >= ActualCost(last.proposals[i], last.g.paid[k].dataCenters)
                    /\ last.g.paid[k].paid
                            = ActualCost(last.proposals[i], last.g.paid[k].dataCenters)

=============================================================================
